---- MODULE Spec2Model ----
(***************************************************************************)
(* Model of the RAG chatbot backends of my-book-with-chatbot.              *)
(*                                                                         *)
(*   backend/app.py   Cohere variant:  POST /query -> query_chatbot        *)
(*   backend/main.py  Gemini variant:  POST /query -> query_route          *)
(*   backend/main2.py LangChain variant: POST /chat, GET/DELETE /history   *)
(*   backend/embeddings.py  batch script: get_gemini_embedding             *)
(*   backend/scripts/create-embeddings.py  ingestion: chunk_text           *)
(*                                                                         *)
(* A deployment runs one of the programs (variant).  app.py and main.py    *)
(* keep an in-memory embedding cache that is loaded from a JSON file at    *)
(* start-up and rewritten in full after every insertion.  main2.py keeps   *)
(* a process-wide conversation history.                                    *)
(*                                                                         *)
(* Representation.  A Python str is a sequence of atoms: an atom is one    *)
(* character (" ", "a", ..., written "U+00A0" by its code point when it is *)
(* not printable ASCII) or an indivisible literal phrase, so "" is <<>>    *)
(* and str.strip() works on the atoms.  An Optional value is a record      *)
(* [some, val].  A dict is a function.  The remote providers are not part  *)
(* of the program: what a provider answers to a call is an input of the    *)
(* request, drawn from a small set (and NoCall when it is not called).     *)
(***************************************************************************)
EXTENDS Integers, Sequences, FiniteSets, TLC

VARIABLES
    variant,          \* "app" (backend/app.py) or "main" (backend/main.py)
    running,          \* the process is up (start-up did not abort)
    embedding_cache,  \* the module-level dict embedding_cache: text -> vector
    cache_file,       \* embedding_cache.json on disk
    req,              \* the request just handled (handlers run one at a time)
    io,               \* what each provider / the disk answered in that request
    resp,             \* its HTTP response, with the adapter calls it made
    last_save,        \* outcome of the latest save of the cache ("none" at start)
    computed,         \* texts whose embedding was ever obtained and inserted
    rate_limit_answers, \* answers given so far to a rate-limited chat call
    conversation_history, \* main2.py: the module-level deque(maxlen=7)
    initialized,      \* main2.py: which of the three model globals are set
    chat_trace,       \* main2.py: the request just handled and its response
    retry,            \* embeddings.py: the running get_gemini_embedding call
    provider,         \* embeddings.py: how the embedding endpoint behaves
    workers,          \* worker processes of one backend sharing cache_file:
                      \* each its own embedding_cache and position in
                      \* get_embedding / save_embedding_cache
    cache_text,       \* the characters of embedding_cache.json, followed
                      \* while worker processes write it
    chunker           \* create-embeddings.py: the running chunk_text call

\* state of the /query backends app.py and main.py
query_vars == <<variant, running, embedding_cache, cache_file, req, io, resp,
                last_save, computed, rate_limit_answers>>

\* state of the /chat backend main2.py
chat_vars == <<conversation_history, initialized, chat_trace>>

\* state of the batch script embeddings.py, next to its embedding_cache and
\* cache_file
retry_vars == <<retry, provider>>

\* state of several worker processes of app.py or main.py, next to the
\* cache_file they share
worker_vars == <<workers, cache_text>>

\* state of chunk_text of scripts/create-embeddings.py
chunk_vars == <<chunker>>

vars == <<query_vars, chat_vars, retry_vars, worker_vars, chunk_vars>>

\* what the handlers of one program leave alone
outside_query == <<chat_vars, retry_vars, worker_vars, chunk_vars>>
outside_chat == <<query_vars, retry_vars, worker_vars, chunk_vars>>
outside_retry == <<variant, running, req, io, resp, last_save, computed,
                   rate_limit_answers, chat_vars, worker_vars, chunk_vars>>
outside_workers == <<variant, running, embedding_cache, req, io, resp,
                     last_save, computed, rate_limit_answers, chat_vars,
                     retry_vars, chunk_vars>>
outside_chunker == <<query_vars, chat_vars, retry_vars, worker_vars>>

----------------------------------------------------------------------------
(* Bounds and input sets *)

\* longest result list the vector index hands back (top_k is 5; 6 shows the cap)
MaxHits == 6

\* Python None for Optional[str] and Optional[int]
NoneStr == [some |-> FALSE, val |-> <<>>]
NoneInt == [some |-> FALSE, val |-> 0]
Some(v) == [some |-> TRUE, val |-> v]

\* the characters c with c.isspace(), which str.strip() removes and
\* str.split() splits on.  Blank, tab, newline, carriage return and form feed
\* are written as themselves; the atom of any other character is written
\* "U+" and the four hexadecimal digits of its code point
Whitespace ==
    { " ", "\t", "\n", "\r", "\f",
      "U+000B", "U+001C", "U+001D", "U+001E", "U+001F", "U+0085", "U+00A0",
      "U+1680", "U+2000", "U+2001", "U+2002", "U+2003", "U+2004", "U+2005",
      "U+2006", "U+2007", "U+2008", "U+2009", "U+200A", "U+2028", "U+2029",
      "U+202F", "U+205F", "U+3000" }

\* request bodies: question is a str, selected_text an Optional[str]
Questions ==
    { <<>>, <<"U+00A0", "U+3000">>, <<"\n", "\t">>, <<"a">>,
      <<"\t", "a", "\n">>, <<"b">> }
SelectedTexts == { NoneStr, Some(<<"\n">>), Some(<<"\n", "s", " ">>) }

\* embedding vectors a provider may answer with
Vectors == { <<1>>, <<2>> }

\* placeholder for a provider that was not called in the request
NoCall == [kind |-> "not_called"]

----------------------------------------------------------------------------
(* Python helpers *)

RECURSIVE LStrip(_)
LStrip(s) ==
    IF s # <<>> /\ Head(s) \in Whitespace THEN LStrip(Tail(s)) ELSE s

RECURSIVE RStrip(_)
RStrip(s) ==
    IF s # <<>> /\ s[Len(s)] \in Whitespace
    THEN RStrip(SubSeq(s, 1, Len(s) - 1))
    ELSE s

\* str.strip()
Strip(s) == RStrip(LStrip(s))

\* the items of a list
Range(seq) == { seq[i] : i \in 1..Len(seq) }

\* the empty dict {}
EmptyDict == [k \in {} |-> <<>>]

\* mutant: the dict is replaced by one that holds the new entry only
DictSet_Reset(d, k, v) == [x \in {k} |-> v]

\* d[k] = v
DictSet(d, k, v) == [x \in (DOMAIN d) \cup {k} |-> IF x = k THEN v ELSE d[x]]

\* d.get(k, default)
DictGet(d, k, default) == IF k \in DOMAIN d THEN d[k] ELSE default

\* seq[:n]
Take(s, n) == SubSeq(s, 1, IF Len(s) < n THEN Len(s) ELSE n)

\* sequences over S of length 0..n
SeqsUpTo(S, n) == UNION { [1..k -> S] : k \in 0..n }

----------------------------------------------------------------------------
(* The cache file *)

AbsentFile == [kind |-> "absent", data |-> EmptyDict]
TornFile == [kind |-> "torn", data |-> EmptyDict]

\* json.dump(embedding_cache, f): the whole dict as one JSON object
JsonDump(cache) == [kind |-> "json", data |-> cache]

\* outcomes of open(file, "w") + json.dump: written, open() raised (file
\* untouched), or the write raised after open() truncated the file
SaveOutcomes == { "ok", "open_failed", "write_failed" }

\* the file after a save attempt with outcome so
FileAfterSave(cache, file, so) ==
    CASE so = "ok"           -> JsonDump(cache)
      [] so = "open_failed"  -> file
      [] so = "write_failed" -> TornFile

\* what a reader finds in the file: the dict of a complete JSON file
FileDict(file) == IF file.kind = "json" THEN file.data ELSE EmptyDict

----------------------------------------------------------------------------
(* Providers as seen by the handlers: the answers they may give *)

\* co.embed(texts=[text], ...): a response whose .embeddings holds one vector,
\* a response with no or an empty embedding, TooManyRequestsError, or any
\* other exception
CohereEmbedOutcomes ==
    { [kind |-> "ok", embeddings |-> <<v>>] : v \in Vectors \cup {<<>>} }
    \cup { [kind |-> "ok", embeddings |-> <<>>],
           [kind |-> "rate_limit", embeddings |-> <<>>],
           [kind |-> "error", embeddings |-> <<>>] }

\* points stored by scripts/create-embeddings.py carry text, chapter and
\* chunk_index; a point may also come back without payload
Hit1 == [payload |-> Some([text |-> <<"p1">>, chapter |-> <<"Intro">>,
                           chunk_index |-> 3]),
         score |-> 80]
Hit2 == [payload |-> [some |-> FALSE, val |-> EmptyDict], score |-> 91]

\* the index (Distance.COSINE) hands its points back best first
BestFirst(r) == \A i \in 1..(Len(r) - 1) : r[i].score >= r[i + 1].score

\* the list Hit2, ..., Hit2, Hit1, ..., Hit1 of length n
Descending(n) == [i \in 1..n |-> IF 2 * i <= n + 1 THEN Hit2 ELSE Hit1]

\* result lists: every best-first list of up to two points, and a list of
\* every length up to MaxHits
ResultLists ==
    { r \in SeqsUpTo({Hit1, Hit2}, 2) : BestFirst(r) }
    \cup { Descending(n) : n \in 3..MaxHits }

\* client.search(...): a list of scored points, or an exception
SearchOutcomes ==
    { [kind |-> "ok", results |-> r] : r \in ResultLists }
    \cup { [kind |-> "error", results |-> <<>>] }

\* co.chat(...): a response with .text, TooManyRequestsError, or any other
\* exception
ChatTexts == { <<"A", " ">>, <<" ">> }
CohereChatOutcomes ==
    { [kind |-> "ok", text |-> t] : t \in ChatTexts }
    \cup { [kind |-> "rate_limit", text |-> <<>>],
           [kind |-> "error", text |-> <<>>] }

----------------------------------------------------------------------------
(* backend/app.py *)

MSG_EMPTY_QUESTION == <<"Question cannot be empty">>
MSG_NO_INFO ==
    <<"I'm sorry, I couldn't find relevant information or the API rate limit was reached.">>
MSG_CHAT_RATE_LIMIT ==
    <<"API rate limit reached. Please try again in a few seconds.">>
MSG_CHAT_ERROR ==
    <<"Sorry, there was an issue generating the answer. Please try again.">>

\* save_embedding_cache(): open(..., "w") and json.dump; an error propagates
save_embedding_cache(cache, file, so) ==
    [file |-> FileAfterSave(cache, file, so), raised |-> so # "ok"]

\* mutant: no cache lookup, the provider is asked every time
get_embedding_NoLookup(cache, file, text, eo, so) ==
    IF eo.kind = "ok" /\ Len(eo.embeddings) > 0
    THEN LET embedding == eo.embeddings[1]
             cache2 == DictSet(cache, text, embedding)
             sv == save_embedding_cache(cache2, file, so)
         IN  [ret |-> IF sv.raised THEN <<>> ELSE embedding,
              raised |-> FALSE, cache |-> cache2, file |-> sv.file,
              called |-> TRUE, inserted |-> TRUE, save |-> so]
    ELSE [ret |-> <<>>, raised |-> FALSE, cache |-> cache, file |-> file,
          called |-> TRUE, inserted |-> FALSE, save |-> "none"]

\* get_embedding(text): cache first; on a miss one co.embed call, insertion,
\* save; every exception of the try block ends in return []
get_embedding(cache, file, text, eo, so) ==
    IF text \in DOMAIN cache
    THEN [ret |-> cache[text], raised |-> FALSE, cache |-> cache,
          file |-> file, called |-> FALSE, inserted |-> FALSE,
          save |-> "none"]
    ELSE IF eo.kind = "ok" /\ Len(eo.embeddings) > 0
    THEN LET embedding == eo.embeddings[1]
             cache2 == DictSet(cache, text, embedding)
             sv == save_embedding_cache(cache2, file, so)
         IN  [ret |-> IF sv.raised THEN <<>> ELSE embedding,
              raised |-> FALSE, cache |-> cache2, file |-> sv.file,
              called |-> TRUE, inserted |-> TRUE, save |-> so]
    ELSE [ret |-> <<>>, raised |-> FALSE, cache |-> cache, file |-> file,
          called |-> TRUE, inserted |-> FALSE, save |-> "none"]

\* one scored point -> chunk dict (app.py: defaults "", "Unknown", 0)
AppChunk(r) ==
    LET payload == IF r.payload.some /\ r.payload.val # EmptyDict
                   THEN r.payload.val ELSE EmptyDict
    IN  [text |-> DictGet(payload, "text", <<>>),
         chapter |-> DictGet(payload, "chapter", <<"Unknown">>),
         chunk_index |-> DictGet(payload, "chunk_index", 0),
         score |-> r.score]

\* mutant: the `if not embedding: return []` guard is missing
search_qdrant_NoEmptyCheck(cache, file, query, eo, so, sr) ==
    LET ge == get_embedding(cache, file, query, eo, so)
    IN  IF sr.kind # "ok"
        THEN [chunks |-> <<>>, raised |-> FALSE, called |-> TRUE, ge |-> ge]
        ELSE [chunks |-> [i \in 1..Len(sr.results) |-> AppChunk(sr.results[i])],
              raised |-> FALSE, called |-> TRUE, ge |-> ge]

\* search_qdrant(query, top_k): get_embedding, then the chunks of the index's
\* answer; [] when the embedding is empty or the search raises.  ge is what
\* get_embedding did.
search_qdrant(cache, file, query, eo, so, sr) ==
    LET ge == get_embedding(cache, file, query, eo, so)
        embedding == ge.ret
    IN  IF ge.raised
        THEN [chunks |-> <<>>, raised |-> TRUE, called |-> FALSE, ge |-> ge]
        ELSE IF embedding = <<>>
        THEN [chunks |-> <<>>, raised |-> FALSE, called |-> FALSE, ge |-> ge]
        ELSE IF sr.kind # "ok"
        THEN [chunks |-> <<>>, raised |-> FALSE, called |-> TRUE, ge |-> ge]
        ELSE [chunks |-> [i \in 1..Len(sr.results) |-> AppChunk(sr.results[i])],
              raised |-> FALSE, called |-> TRUE, ge |-> ge]

\* the "Passage {i+1}:\n{ctx}" blocks of the prompt
Passages(contexts) == [i \in 1..Len(contexts) |-> [n |-> i, text |-> contexts[i]]]

\* mutant: the `if not contexts` short-circuit is missing
generate_answer_NoShortCircuit(contexts, question, co) ==
    [answer |-> CASE co.kind = "ok" -> Strip(co.text)
                  [] co.kind = "rate_limit" -> MSG_CHAT_RATE_LIMIT
                  [] OTHER -> MSG_CHAT_ERROR,
     raised |-> FALSE, called |-> TRUE]

\* mutant: only TooManyRequestsError is caught, any other exception escapes
generate_answer_Reraise(contexts, question, co) ==
    IF contexts = <<>>
    THEN [answer |-> MSG_NO_INFO, raised |-> FALSE, called |-> FALSE]
    ELSE [answer |-> CASE co.kind = "ok" -> Strip(co.text)
                       [] co.kind = "rate_limit" -> MSG_CHAT_RATE_LIMIT
                       [] OTHER -> <<>>,
          raised |-> co.kind \notin {"ok", "rate_limit"}, called |-> TRUE]

\* generate_answer(contexts, question): fixed message without a chat call when
\* there is no context, else one co.chat call whose exceptions become messages
generate_answer(contexts, question, co) ==
    IF contexts = <<>>
    THEN [answer |-> MSG_NO_INFO, raised |-> FALSE, called |-> FALSE]
    ELSE [answer |-> CASE co.kind = "ok" -> Strip(co.text)
                       [] co.kind = "rate_limit" -> MSG_CHAT_RATE_LIMIT
                       [] OTHER -> MSG_CHAT_ERROR,
          raised |-> FALSE, called |-> TRUE]

\* mutant: only `not req.question`, the strip() test is missing
AppQuestionRejected_NoStrip(question) == question = <<>>

\* `not req.question or not req.question.strip()`
AppQuestionRejected(question) == question = <<>> \/ Strip(question) = <<>>

\* mutant: `req.selected_text` alone, a whitespace-only text counts
SelectedTextGiven_NoStrip(selected_text) ==
    selected_text.some /\ selected_text.val # <<>>

\* `req.selected_text and req.selected_text.strip()`
SelectedTextGiven(selected_text) ==
    selected_text.some /\ selected_text.val # <<>>
    /\ Strip(selected_text.val) # <<>>

\* mutant: contexts.append(...) instead of contexts.insert(0, ...)
WithSelectedText_Append(contexts, selected_text) ==
    IF selected_text.some /\ Strip(selected_text.val) # <<>>
    THEN contexts \o <<Strip(selected_text.val)>>
    ELSE contexts

\* contexts after the optional contexts.insert(0, selected_text.strip())
WithSelectedText(contexts, selected_text) ==
    IF SelectedTextGiven(selected_text)
    THEN <<Strip(selected_text.val)>> \o contexts
    ELSE contexts

\* mutant: the section label is built from the wrong field
AppSource_ByScore(chunk) ==
    [chapter |-> chunk.chapter,
     section |-> <<"Chunk ", ToString(chunk.score)>>,
     url |-> <<>>]

\* Source(chapter=r["chapter"], section=f"Chunk {r['chunk_index']}", url="")
AppSource(chunk) ==
    [chapter |-> chunk.chapter,
     section |-> <<"Chunk ", ToString(chunk.chunk_index)>>,
     url |-> <<>>]

\* mutant: the [:5] slice is missing
AppSources_NoCap(chunks) == [i \in 1..Len(chunks) |-> AppSource(chunks[i])]

\* sources[:5] of the response
AppSources(chunks) == Take([i \in 1..Len(chunks) |-> AppSource(chunks[i])], 5)

\* calls made, in order
Calls(embed, search, chat) ==
    (IF embed THEN <<"embed">> ELSE <<>>)
    \o (IF search THEN <<"search">> ELSE <<>>)
    \o (IF chat THEN <<"chat">> ELSE <<>>)

NoContexts == [given |-> FALSE, passages |-> <<>>]

MSG_INTERNAL_ERROR == <<"Internal Server Error">>

\* raise HTTPException(status_code=400, detail="Question cannot be empty")
Rejected(cache, file) ==
    [status |-> 400, detail |-> MSG_EMPTY_QUESTION, answer |-> <<>>,
     sources |-> <<>>, calls |-> <<>>, contexts |-> NoContexts,
     chunks |-> <<>>, embedding |-> <<>>, cache |-> cache, file |-> file,
     inserted |-> FALSE, save |-> "none"]

\* an exception that leaves the handler: FastAPI answers HTTP 500; contexts
\* is what the handler had given to the chat provider before the exception
Unhandled(calls, contexts, chunks, embedding, cache, file, inserted, save) ==
    [status |-> 500, detail |-> MSG_INTERNAL_ERROR, answer |-> <<>>,
     sources |-> <<>>, calls |-> calls, contexts |-> contexts,
     chunks |-> chunks, embedding |-> embedding, cache |-> cache,
     file |-> file, inserted |-> inserted, save |-> save]

\* query_chatbot(req): the response and the cache and file it leaves
query_chatbot(cache, file, request, eo, so, sr, co) ==
    IF AppQuestionRejected(request.question)
    THEN Rejected(cache, file)
    ELSE LET question == Strip(request.question)
             search_results == search_qdrant(cache, file, question, eo, so, sr)
             ge == search_results.ge
             chunks == search_results.chunks
             contexts == WithSelectedText(
                             [i \in 1..Len(chunks) |-> chunks[i].text],
                             request.selected_text)
             ga == generate_answer(contexts, question, co)
         IN  IF search_results.raised
             THEN Unhandled(Calls(ge.called, search_results.called, FALSE),
                            NoContexts, chunks, ge.ret, ge.cache, ge.file, ge.inserted,
                            ge.save)
             ELSE IF ga.raised
             THEN Unhandled(Calls(ge.called, search_results.called, ga.called),
                            [given |-> TRUE, passages |-> Passages(contexts)],
                            chunks, ge.ret, ge.cache, ge.file, ge.inserted,
                            ge.save)
             ELSE [status |-> 200, detail |-> <<>>, answer |-> ga.answer,
                   sources |-> AppSources(chunks),
                   calls |-> Calls(ge.called, search_results.called, ga.called),
                   contexts |-> [given |-> TRUE,
                                 passages |-> Passages(contexts)],
                   chunks |-> chunks, embedding |-> ge.ret,
                   cache |-> ge.cache, file |-> ge.file,
                   inserted |-> ge.inserted, save |-> ge.save]

----------------------------------------------------------------------------
(* backend/main.py *)

\* requests.post(GEMINI_EMBED_ENDPOINT, ...): an exception, a non-200 answer,
\* a 200 answer whose body is not JSON, or a 200 answer with a JSON object.
\* A JSON object is a function on its keys; an element of "data" is tagged
\* with its Python type t and carries a dict in d or a list in l.
GeminiEmbedBodies ==
    { [data |-> << [t |-> "dict", d |-> [embedding |-> v], l |-> <<>>] >>] :
        v \in Vectors }
    \cup { [data |-> << [t |-> "list", d |-> EmptyDict, l |-> <<1>>] >>],
           [data |-> << [t |-> "dict", d |-> [index |-> <<0>>], l |-> <<>>] >>],
           [data |-> << >>],
           [embeddings |-> << <<2>> >>],
           [embeddings |-> << >>],
           [embeddings |-> << <<>> >>],
           [embedding |-> <<1>>],
           [error |-> <<"quota">>] }

GeminiEmbedOutcomes ==
    { [kind |-> "exception", status |-> 0, json |-> EmptyDict],
      [kind |-> "response", status |-> 429, json |-> EmptyDict],
      [kind |-> "response", status |-> 500, json |-> EmptyDict],
      [kind |-> "not_json", status |-> 200, json |-> EmptyDict] }
    \cup { [kind |-> "response", status |-> 200, json |-> j] :
             j \in GeminiEmbedBodies }

NoneVec == [some |-> FALSE, val |-> <<>>]
NoneList == [some |-> FALSE, val |-> <<>>]

\* one element d of j["data"]: d["embedding"], d itself when a list, else None
DataEmbedding(d) ==
    IF d.t = "dict" /\ "embedding" \in DOMAIN d.d THEN Some(d.d["embedding"])
    ELSE IF d.t = "list" THEN Some(d.l)
    ELSE NoneVec

\* gemini_embed_texts(texts): Optional list of Optional vectors; `raised` when
\* resp.json() raises, which the function does not catch
gemini_embed_texts(http) ==
    IF http.kind = "exception" THEN [raised |-> FALSE, ret |-> NoneList]
    ELSE IF http.status # 200 THEN [raised |-> FALSE, ret |-> NoneList]
    ELSE IF http.kind = "not_json" THEN [raised |-> TRUE, ret |-> NoneList]
    ELSE LET j == http.json IN
         IF "data" \in DOMAIN j
         THEN [raised |-> FALSE,
               ret |-> Some([i \in 1..Len(j["data"]) |->
                                DataEmbedding(j["data"][i])])]
         ELSE IF "embeddings" \in DOMAIN j
         THEN [raised |-> FALSE,
               ret |-> Some([i \in 1..Len(j["embeddings"]) |->
                                Some(j["embeddings"][i])])]
         ELSE IF "embedding" \in DOMAIN j
         THEN [raised |-> FALSE, ret |-> Some(<<Some(j["embedding"])>>)]
         ELSE [raised |-> FALSE, ret |-> NoneList]

\* save_cache(): as save_embedding_cache, but every exception is swallowed
save_cache(cache, file, so) ==
    [file |-> FileAfterSave(cache, file, so), raised |-> FALSE]

\* requests.post(GEMINI_CHAT_ENDPOINT, ...): as for the embedding endpoint.
\* Bodies: Vertex-like output.content, OpenAI-like choices, top-level text,
\* and an object of none of these shapes.
\* JSON values of a chat response body, each with its Python type
JNull == [type |-> "null"]
JStr(s) == [type |-> "str", val |-> s]
JList(l) == [type |-> "list", val |-> l]
JDict(d) == [type |-> "dict", val |-> d]

\* isinstance(v, t) for t one of dict, list, str
IsInstance(v, t) == v.type = t

\* `k in d` for a dict d
Has(d, k) == k \in DOMAIN d.val

\* d.get(k)
Get(d, k) == IF Has(d, k) THEN d.val[k] ELSE JNull

\* truth value of a JSON value: None, {}, [] and "" are false
Truthy(v) ==
    CASE v.type = "null" -> FALSE
      [] v.type = "dict" -> DOMAIN v.val # {}
      [] OTHER -> Len(v.val) > 0

GeminiChatBodies ==
    { JDict([output |-> JDict([content |-> JList(<< JDict([text |-> JStr(t)]) >>)])]) :
        t \in ChatTexts }
    \cup { JDict([choices |->
                    JList(<< JDict([message |->
                                      JDict([content |-> JStr(<<"A", " ">>)])]) >>)]),
           JDict([choices |-> JList(<< JDict([text |-> JStr(<<"A", " ">>)]) >>)]),
           JDict([choices |->
                    JList(<< JDict([delta |->
                                      JDict([content |-> JStr(<<" ">>)])]) >>)]),
           JDict([text |-> JStr(<<"A", " ">>)]),
           JDict([error |-> JStr(<<"quota">>)]) }

GeminiChatOutcomes ==
    { [kind |-> "exception", status |-> 0, json |-> JNull],
      [kind |-> "response", status |-> 429, json |-> JNull],
      [kind |-> "response", status |-> 500, json |-> JNull],
      [kind |-> "not_json", status |-> 200, json |-> JNull] }
    \cup { [kind |-> "response", status |-> 200, json |-> j] :
             j \in GeminiChatBodies }

\* " ".join(parts)
RECURSIVE JoinSpace(_)
JoinSpace(parts) ==
    IF parts = <<>> THEN <<>>
    ELSE IF Len(parts) = 1 THEN parts[1]
    ELSE parts[1] \o <<" ">> \o JoinSpace(Tail(parts))

\* json.dumps(j)[:1500]: the body as text, never empty
JsonText(j) ==
    <<"json:">> \o (IF IsInstance(j, "dict") THEN <<ToString(DOMAIN j.val)>> ELSE <<j.type>>)

\* the parts collected from output.content: the "text" of a dict item, else
\* the "text" of its dict "content", or a str item itself
RECURSIVE OutputParts(_)
OutputParts(content) ==
    IF content = <<>> THEN <<>>
    ELSE LET item == Head(content)
             part == IF IsInstance(item, "dict")
                     THEN IF Has(item, "text") THEN <<item.val["text"]>>
                          ELSE IF Has(item, "content")
                                  /\ IsInstance(item.val["content"], "dict")
                                  /\ Has(item.val["content"], "text")
                          THEN <<item.val["content"].val["text"]>>
                          ELSE <<>>
                     ELSE IF IsInstance(item, "str") THEN <<item>> ELSE <<>>
         IN  part \o OutputParts(Tail(content))

\* the texts collected from a list-valued message content: the "text" of a
\* dict item, or a str item itself
RECURSIVE ChoiceTexts(_)
ChoiceTexts(cont) ==
    IF cont = <<>> THEN <<>>
    ELSE LET c == Head(cont)
             t == IF IsInstance(c, "dict") /\ Has(c, "text") THEN <<c.val["text"]>>
                  ELSE IF IsInstance(c, "str") THEN <<c>> ELSE <<>>
         IN  t \o ChoiceTexts(Tail(cont))

\* a return of gemini_chat, an exception that leaves it, or no return yet
ChatStep(done, raised, ret) == [done |-> done, raised |-> raised, ret |-> ret]

\* " ".join(parts).strip(): a part that is no str makes join raise
JoinedStripped(parts) ==
    IF \E i \in 1..Len(parts) : ~IsInstance(parts[i], "str")
    THEN ChatStep(TRUE, TRUE, NoneStr)
    ELSE ChatStep(TRUE, FALSE,
                  Some(Strip(JoinSpace([i \in 1..Len(parts) |->
                                          parts[i].val]))))

\* the Vertex-style branch: output.content
FromOutput(j) ==
    IF Has(j, "output") /\ IsInstance(j.val["output"], "dict")
       /\ IsInstance(Get(j.val["output"], "content"), "list")
    THEN LET parts == OutputParts(Get(j.val["output"], "content").val)
         IN  IF parts # <<>> THEN JoinedStripped(parts)
             ELSE ChatStep(FALSE, FALSE, NoneStr)
    ELSE ChatStep(FALSE, FALSE, NoneStr)

\* the OpenAI-style branch: choices[0]; first.get on a first that is no dict
\* raises
FromChoices(j) ==
    IF Has(j, "choices") /\ IsInstance(j.val["choices"], "list")
       /\ Len(j.val["choices"].val) > 0
    THEN LET first == j.val["choices"].val[1]
             msg == IF Truthy(Get(first, "message")) THEN Get(first, "message")
                    ELSE IF Truthy(Get(first, "delta")) THEN Get(first, "delta")
                    ELSE first
             cont == Get(msg, "content")
             texts == ChoiceTexts(cont.val)
         IN  IF ~IsInstance(first, "dict") THEN ChatStep(TRUE, TRUE, NoneStr)
             ELSE IF IsInstance(msg, "dict") /\ Has(msg, "content")
                     /\ IsInstance(cont, "list") /\ texts # <<>>
             THEN JoinedStripped(texts)
             ELSE IF IsInstance(msg, "dict") /\ Has(msg, "content")
                     /\ IsInstance(cont, "str")
             THEN ChatStep(TRUE, FALSE, Some(Strip(cont.val)))
             ELSE IF IsInstance(msg, "dict") /\ Has(first, "content")
                     /\ IsInstance(first.val["content"], "str")
             THEN ChatStep(TRUE, FALSE, Some(Strip(first.val["content"].val)))
             ELSE IF Has(first, "text") /\ IsInstance(first.val["text"], "str")
             THEN ChatStep(TRUE, FALSE, Some(Strip(first.val["text"].val)))
             ELSE ChatStep(FALSE, FALSE, NoneStr)
    ELSE ChatStep(FALSE, FALSE, NoneStr)

\* gemini_chat(system_prompt, user_prompt): Optional[str]
gemini_chat(http) ==
    IF http.kind = "exception" THEN [raised |-> FALSE, ret |-> NoneStr]
    ELSE IF http.status # 200 THEN [raised |-> FALSE, ret |-> NoneStr]
    ELSE IF http.kind = "not_json" THEN [raised |-> TRUE, ret |-> NoneStr]
    ELSE LET j == http.json
             r == IF ~IsInstance(j, "dict") THEN ChatStep(FALSE, FALSE, NoneStr)
                  ELSE IF FromOutput(j).done THEN FromOutput(j)
                  ELSE IF FromChoices(j).done THEN FromChoices(j)
                  ELSE IF Has(j, "text") /\ IsInstance(j.val["text"], "str")
                  THEN ChatStep(TRUE, FALSE, Some(Strip(j.val["text"].val)))
                  ELSE ChatStep(FALSE, FALSE, NoneStr)
         IN  IF r.done THEN [raised |-> r.raised, ret |-> r.ret]
             ELSE [raised |-> FALSE, ret |-> Some(JsonText(j))]

\* one scored point -> chunk dict (main.py: chapter and chunk_index default None)
MainChunk(r) ==
    LET payload == IF r.payload.some /\ r.payload.val # EmptyDict
                   THEN r.payload.val ELSE EmptyDict
    IN  [text |-> DictGet(payload, "text", <<>>),
         chapter |-> IF "chapter" \in DOMAIN payload
                     THEN Some(payload["chapter"]) ELSE NoneStr,
         chunk_index |-> IF "chunk_index" \in DOMAIN payload
                         THEN Some(payload["chunk_index"]) ELSE NoneInt,
         score |-> r.score]

\* mutant: the chunks are handed back in the opposite order
search_qdrant_by_embedding_Reversed(sr) ==
    IF sr.kind # "ok" THEN <<>>
    ELSE [i \in 1..Len(sr.results) |->
            MainChunk(sr.results[Len(sr.results) + 1 - i])]

\* search_qdrant_by_embedding(embedding, top_k): [] when the search raises
search_qdrant_by_embedding(sr) ==
    IF sr.kind # "ok" THEN <<>>
    ELSE [i \in 1..Len(sr.results) |-> MainChunk(sr.results[i])]

MSG_EMBED_FAILED ==
    <<"Embedding failed or service unavailable. Please try again later.">>
MSG_NO_PASSAGES == <<"No relevant passages found in the textbook.">>
MSG_CHAT_FAILED == <<"Chat generation failed. Please try again later.">>

\* Source(chapter=r.get("chapter"), section=f"Chunk {r.get('chunk_index')}", url=None)
MainSource(chunk) ==
    [chapter |-> chunk.chapter,
     section |-> <<"Chunk ", IF chunk.chunk_index.some
                             THEN ToString(chunk.chunk_index.val)
                             ELSE "None">>,
     url |-> NoneStr]

MainSources(chunks) == Take([i \in 1..Len(chunks) |-> MainSource(chunks[i])], 5)

\* `question = (req.question or "").strip()` and `if not question`
MainQuestionRejected(question) == Strip(question) = <<>>

\* a QueryResponse of main.py
MainResponse(answer, sources, calls, contexts, chunks, embedding, cache, file, inserted, save) ==
    [status |-> 200, detail |-> <<>>, answer |-> answer, sources |-> sources,
     calls |-> calls, contexts |-> contexts, chunks |-> chunks,
     embedding |-> embedding, cache |-> cache, file |-> file,
     inserted |-> inserted, save |-> save]

\* query_route(req): the response and the cache and file it leaves
query_route(cache, file, request, eo, so, sr, co) ==
    LET question == Strip(request.question)
        hit == question \in DOMAIN cache
        ge == gemini_embed_texts(eo)
        embeddings == ge.ret
        failed == ~embeddings.some \/ embeddings.val = <<>>
                  \/ ~embeddings.val[1].some
        emb == IF hit THEN cache[question] ELSE embeddings.val[1].val
        cache2 == IF hit THEN cache ELSE DictSet(cache, question, emb)
        file2 == IF hit THEN file ELSE save_cache(cache2, file, so).file
        inserted == ~hit
        save == IF hit THEN "none" ELSE so
        results == search_qdrant_by_embedding(sr)
        contexts == WithSelectedText(
                        [i \in 1..Len(results) |-> results[i].text],
                        request.selected_text)
        gc == gemini_chat(co)
        answer == gc.ret
    IN  IF MainQuestionRejected(request.question)
        THEN Rejected(cache, file)
        ELSE IF ~hit /\ ge.raised
        THEN Unhandled(<<"embed">>, NoContexts, <<>>, <<>>, cache, file, FALSE,
                       "none")
        ELSE IF ~hit /\ failed
        THEN MainResponse(MSG_EMBED_FAILED, <<>>, <<"embed">>, NoContexts,
                          <<>>, <<>>, cache, file, FALSE, "none")
        ELSE IF results = <<>>
        THEN MainResponse(MSG_NO_PASSAGES, <<>>, Calls(~hit, TRUE, FALSE),
                          NoContexts, results, emb, cache2, file2, inserted,
                          save)
        ELSE IF gc.raised
        THEN Unhandled(Calls(~hit, TRUE, TRUE),
                       [given |-> TRUE, passages |-> Passages(contexts)],
                       results, emb, cache2, file2, inserted, save)
        ELSE IF ~answer.some \/ answer.val = <<>>
        THEN MainResponse(MSG_CHAT_FAILED, <<>>, Calls(~hit, TRUE, TRUE),
                          [given |-> TRUE, passages |-> Passages(contexts)],
                          results, emb, cache2, file2, inserted, save)
        ELSE MainResponse(Strip(answer.val), MainSources(results),
                          Calls(~hit, TRUE, TRUE),
                          [given |-> TRUE, passages |-> Passages(contexts)],
                          results, emb, cache2, file2, inserted, save)

----------------------------------------------------------------------------
(* backend/main2.py: POST /chat over a process-wide conversation history *)

\* conversation_history = deque(maxlen=7)
HISTORY_MAXLEN == 7

\* largest reading of datetime.now(), the local wall clock, which is not
\* monotonic: two readings in 1..MaxNow may be equal and a later one smaller
MaxNow == 2

\* embeddings_model, llm_model and pinecone_index after import: all None
NotInitialized ==
    [embeddings_model |-> FALSE, llm_model |-> FALSE, pinecone_index |-> FALSE]

\* startup_event(): the keys are missing, or one of the three constructors
\* raises, or all three globals get set
StartupOutcomes ==
    { "ok", "missing_keys", "embeddings_failed", "llm_failed",
      "pinecone_failed" }

\* startup_event(): the globals are assigned one after the other up to the
\* first exception, which leaves the handler as an HTTPException
startup_event(models, outcome) ==
    [raised |-> outcome # "ok",
     models |->
        [embeddings_model |->
            models.embeddings_model
            \/ outcome \in {"ok", "llm_failed", "pinecone_failed"},
         llm_model |->
            models.llm_model \/ outcome \in {"ok", "pinecone_failed"},
         pinecone_index |-> models.pinecone_index \/ outcome = "ok"]]

\* ChatRequest bodies: query is a str, software and hardware default to
\* None; one body with the defaults, one with a background
ChatRequests ==
    { [query |-> <<"q1">>, software |-> NoneStr, hardware |-> NoneStr],
      [query |-> <<"q2">>, software |-> Some(<<"ROS">>), hardware |-> NoneStr] }

\* the HTTP clients; no handler of main2.py reads who is calling
Callers == { "u1", "u2" }

\* embeddings_model.embed_query(query): a vector, or an exception
EmbedQueryOutcomes ==
    { [kind |-> "ok", vector |-> <<1>>], [kind |-> "error", vector |-> <<>>] }

\* matches of the Pinecone index: metadata dict and score
Match1 ==
    [metadata |-> [k \in {"text", "source", "filename"} |->
                     CASE k = "text" -> <<"t1">>
                       [] k = "source" -> <<"intro", ".md">>
                       [] OTHER -> <<"intro.md">>],
     score |-> 90]
Match2 ==
    [metadata |-> [k \in {"text", "source", "filename"} |->
                     CASE k = "text" -> <<"t2">>
                       [] k = "source" -> <<"ch1", ".md", "x">>
                       [] OTHER -> <<"ch1.mdx">>],
     score |-> 85]
Match3 == [metadata |-> EmptyDict, score |-> 70]

\* pinecone_index.query(...): an exception, or up to top_k matches, best first
PineconeOutcomes ==
    { [kind |-> "error", matches |-> <<>>] }
    \cup { [kind |-> "ok", matches |-> m] :
             m \in { <<>>, <<Match1, Match1, Match3>>, <<Match2>> } }

\* chain.invoke(...): the model's text, or an exception
LlmOutcomes ==
    { [kind |-> "ok", text |-> <<"r1">>], [kind |-> "error", text |-> <<>>] }

\* mutant: a deque without maxlen
DequeAppend_Unbounded(dq, x) == Append(dq, x)

\* deque(maxlen=7).append(x): a full deque drops its leftmost item
DequeAppend(dq, x) ==
    IF Len(dq) >= HISTORY_MAXLEN THEN Append(Tail(dq), x) ELSE Append(dq, x)

\* s.startswith(p)
StartsWith(s, p) == Len(s) >= Len(p) /\ SubSeq(s, 1, Len(p)) = p

\* s.replace(old, '') for a non-empty old
RECURSIVE Remove(_, _)
Remove(s, old) ==
    IF s = <<>> THEN <<>>
    ELSE IF StartsWith(s, old)
    THEN Remove(SubSeq(s, Len(old) + 1, Len(s)), old)
    ELSE <<Head(s)>> \o Remove(Tail(s), old)

\* f"/docs/{source_path.replace('.md', '').replace('.mdx', '')}"
DocUrl(source_path) ==
    <<"/docs/">> \o Remove(Remove(source_path, <<".md">>), <<".md", "x">>)

\* the Document built from one match
RetrievedDoc(match) ==
    [page_content |-> DictGet(match.metadata, "text", <<>>),
     source |-> DocUrl(DictGet(match.metadata, "source", <<"N/A">>)),
     score |-> match.score,
     filename |-> DictGet(match.metadata, "filename", <<"N/A">>)]

\* sources_list: one {source, filename} per match, first occurrence only
RECURSIVE SourcesList(_, _)
SourcesList(docs, acc) ==
    IF docs = <<>> THEN acc
    ELSE LET e == [source |-> Head(docs).source, filename |-> Head(docs).filename]
         IN  SourcesList(Tail(docs),
                         IF \E i \in 1..Len(acc) : acc[i] = e THEN acc
                         ELSE Append(acc, e))

\* the "role: content" lines of the shared history put into the prompt
ConversationContext(history) ==
    [i \in 1..Len(history) |->
        [role |-> history[i].role, content |-> history[i].content]]

\* `if software or hardware`
Personalized(software, hardware) ==
    (software.some /\ software.val # <<>>)
    \/ (hardware.some /\ hardware.val # <<>>)

NoPrompt ==
    [grounded |-> FALSE, personalized |-> FALSE, conversation |-> <<>>,
     docs |-> <<>>]

\* `if not embeddings_model or not llm_model or not pinecone_index`
ModelsMissing(models) ==
    ~models.embeddings_model \/ ~models.llm_model \/ ~models.pinecone_index

\* str(HTTPException(status_code=500, detail=...)) of the guard
MSG_NOT_INITIALIZED == <<"500: AI models or Pinecone not initialized.">>

\* get_rag_chain(query, software, hardware): raises when a model global is
\* None, else embeds the query, queries the index and builds the prompt from
\* the shared history and the matches; an exception of either provider
\* propagates
get_rag_chain(models, query, software, hardware, history, eo, po) ==
    IF ModelsMissing(models)
    THEN [raised |-> TRUE, detail |-> MSG_NOT_INITIALIZED, calls |-> <<>>,
          sources_list |-> <<>>, prompt |-> NoPrompt]
    ELSE IF eo.kind # "ok"
    THEN [raised |-> TRUE, detail |-> <<"embed_query failed">>,
          calls |-> <<"embed">>, sources_list |-> <<>>, prompt |-> NoPrompt]
    ELSE IF po.kind # "ok"
    THEN [raised |-> TRUE, detail |-> <<"index query failed">>,
          calls |-> <<"embed", "search">>, sources_list |-> <<>>,
          prompt |-> NoPrompt]
    ELSE LET retrieved_docs ==
                 [i \in 1..Len(po.matches) |-> RetrievedDoc(po.matches[i])]
         IN  [raised |-> FALSE, detail |-> <<>>,
              calls |-> <<"embed", "search">>,
              sources_list |-> SourcesList(retrieved_docs, <<>>),
              prompt |-> [grounded |-> retrieved_docs # <<>>,
                          personalized |-> Personalized(software, hardware),
                          conversation |-> ConversationContext(history),
                          docs |-> [i \in 1..Len(retrieved_docs) |->
                                      [source |-> retrieved_docs[i].source,
                                       page_content |->
                                           retrieved_docs[i].page_content]]]]

\* one record of the history
Message(role, content, timestamp) ==
    [role |-> role, content |-> content, timestamp |-> timestamp]

\* mutant: the user record is appended before the chain is built
chat_endpoint_UserFirst(models, history, timestamp, request, eo, po, lo) ==
    LET rc == get_rag_chain(models, request.query, request.software,
                            request.hardware, history, eo, po)
        h1 == DequeAppend(history, Message("user", request.query, timestamp))
        h2 == DequeAppend(h1, Message("assistant", lo.text, timestamp))
    IN  IF rc.raised
        THEN [status |-> 500, detail |-> rc.detail, answer |-> <<>>,
              sources |-> <<>>, conversation_history |-> <<>>,
              calls |-> rc.calls, prompt |-> NoPrompt, history |-> h1]
        ELSE IF lo.kind # "ok"
        THEN [status |-> 500, detail |-> <<"chain.invoke failed">>,
              answer |-> <<>>, sources |-> <<>>, conversation_history |-> <<>>,
              calls |-> Append(rc.calls, "chat"), prompt |-> rc.prompt,
              history |-> h1]
        ELSE [status |-> 200, detail |-> <<>>, answer |-> lo.text,
              sources |-> rc.sources_list, conversation_history |-> h2,
              calls |-> Append(rc.calls, "chat"), prompt |-> rc.prompt,
              history |-> h2]

\* chat_endpoint(request) at clock reading timestamp: the response and the
\* history it leaves
chat_endpoint(models, history, timestamp, request, eo, po, lo) ==
    LET rc == get_rag_chain(models, request.query, request.software,
                            request.hardware, history, eo, po)
        h1 == DequeAppend(history, Message("user", request.query, timestamp))
        h2 == DequeAppend(h1, Message("assistant", lo.text, timestamp))
    IN  IF rc.raised
        THEN [status |-> 500, detail |-> rc.detail, answer |-> <<>>,
              sources |-> <<>>, conversation_history |-> <<>>,
              calls |-> rc.calls, prompt |-> NoPrompt, history |-> history]
        ELSE IF lo.kind # "ok"
        THEN [status |-> 500, detail |-> <<"chain.invoke failed">>,
              answer |-> <<>>, sources |-> <<>>, conversation_history |-> <<>>,
              calls |-> Append(rc.calls, "chat"), prompt |-> rc.prompt,
              history |-> history]
        ELSE [status |-> 200, detail |-> <<>>, answer |-> lo.text,
              sources |-> rc.sources_list, conversation_history |-> h2,
              calls |-> Append(rc.calls, "chat"), prompt |-> rc.prompt,
              history |-> h2]

\* get_history(): list(conversation_history)
get_history(history) == [status |-> 200, conversation_history |-> history]

\* clear_history(): conversation_history.clear()
clear_history(history) == [status |-> 200, history |-> <<>>]

----------------------------------------------------------------------------
(* backend/embeddings.py: get_gemini_embedding retries until it has stored *)

\* attempts of one call that are counted (the loop itself has no bound)
MaxAttempts == 3

\* texts handed to get_gemini_embedding
Texts == { <<"a">>, <<"b">> }

\* requests.post(GEMINI_EMBED_ENDPOINT, ...): an exception, a status other
\* than 200, a 200 answer whose body is not JSON, a 200 answer whose JSON is
\* not an object, or a 200 answer with a JSON object
RetryEmbedOutcomes ==
    { [kind |-> "exception", status |-> 0, json |-> "none", body |-> EmptyDict],
      [kind |-> "response", status |-> 429, json |-> "none", body |-> EmptyDict],
      [kind |-> "response", status |-> 500, json |-> "none", body |-> EmptyDict],
      [kind |-> "response", status |-> 200, json |-> "invalid", body |-> EmptyDict],
      [kind |-> "response", status |-> 200, json |-> "list", body |-> EmptyDict],
      [kind |-> "response", status |-> 200, json |-> "object", body |-> EmptyDict] }
    \cup { [kind |-> "response", status |-> 200, json |-> "object",
            body |-> [embedding |-> v]] : v \in Vectors \cup {<<>>} }

\* what the endpoint answers in each mode: anything while it is flaky, HTTP
\* 429 for good once it rate-limits, a vector for good once it is healthy
ProviderAnswers(mode) ==
    CASE mode = "rate_limited" ->
            { o \in RetryEmbedOutcomes : o.status = 429 }
      [] mode = "healthy" ->
            { o \in RetryEmbedOutcomes :
                o.json = "object" /\ "embedding" \in DOMAIN o.body
                /\ o.body["embedding"] # <<>> }
      [] OTHER -> RetryEmbedOutcomes

\* the disk fails only while the environment is flaky
DiskAnswers(mode) == IF mode = "flaky" THEN SaveOutcomes ELSE {"ok"}

\* mutant: the `if vector` test is missing, whatever "embedding" holds is
\* stored and returned
RetryAttempt_NoCheck(http) ==
    IF http.kind = "exception"
    THEN [vector |-> <<>>, store |-> FALSE, sleep |-> 10]
    ELSE IF http.status = 200
    THEN IF http.json # "object"
         THEN [vector |-> <<>>, store |-> FALSE, sleep |-> 10]
         ELSE [vector |-> DictGet(http.body, "embedding", <<>>),
               store |-> TRUE, sleep |-> 0]
    ELSE IF http.status = 429
    THEN [vector |-> <<>>, store |-> FALSE, sleep |-> 60]
    ELSE [vector |-> <<>>, store |-> FALSE, sleep |-> 10]

\* one pass of the try block up to the save: the vector to store, or the
\* seconds to sleep before the next pass
RetryAttempt(http) ==
    IF http.kind = "exception"
    THEN [vector |-> <<>>, store |-> FALSE, sleep |-> 10]
    ELSE IF http.status = 200
    THEN IF http.json # "object"
         THEN [vector |-> <<>>, store |-> FALSE, sleep |-> 10]
         ELSE LET vector == DictGet(http.body, "embedding", <<>>)
              IN  IF vector # <<>>
                  THEN [vector |-> vector, store |-> TRUE, sleep |-> 0]
                  ELSE [vector |-> <<>>, store |-> FALSE, sleep |-> 10]
    ELSE IF http.status = 429
    THEN [vector |-> <<>>, store |-> FALSE, sleep |-> 60]
    ELSE [vector |-> <<>>, store |-> FALSE, sleep |-> 10]

\* no call of get_gemini_embedding is running
NoRetry ==
    [pc |-> "idle", text |-> <<>>, vector |-> <<>>, ret |-> <<>>,
     attempts |-> 0, sleep |-> 0, answer |-> "none", save |-> "none"]

\* embeddings.py after import
InitRetry ==
    /\ retry = NoRetry
    /\ provider = "flaky"

----------------------------------------------------------------------------
(* Worker processes of app.py / main.py sharing embedding_cache.json *)

\* the worker processes (uvicorn --workers 2)
Workers == { 1, 2 }

\* the chunks json.dump(d, f) hands to f.write one by one, for a dict d of
\* vectors whose keys, in insertion order, are order: `{`, then for each item
\* `, ` (but for the first), the key, `: `, and `[1` `, 2` `]` or `[]`, then
\* `}`; `{}` for the empty dict.  In a key the quote and the backslash get a
\* backslash, newline, tab, carriage return and form feed their short
\* escapes, any other character is written as it is (the keys of the workers
\* hold letters; \uXXXX escapes are not modelled)
json_chunks(d, order) ==
    LET digits == <<"0", "1", "2", "3", "4", "5", "6", "7", "8", "9">>
        RECURSIVE IntText(_)
        IntText(n) ==
            IF n < 0 THEN <<"-">> \o IntText(0 - n)
            ELSE IF n < 10 THEN <<digits[n + 1]>>
            ELSE IntText(n \div 10) \o <<digits[(n % 10) + 1]>>
        EscapeAtom(a) ==
            CASE a = "\"" -> <<"\\", "\"">>
              [] a = "\\" -> <<"\\", "\\">>
              [] a = "\n" -> <<"\\", "n">>
              [] a = "\t" -> <<"\\", "t">>
              [] a = "\r" -> <<"\\", "r">>
              [] a = "\f" -> <<"\\", "f">>
              [] OTHER -> <<a>>
        RECURSIVE KeyText(_)
        KeyText(s) ==
            IF s = <<>> THEN <<>> ELSE EscapeAtom(Head(s)) \o KeyText(Tail(s))
        RECURSIVE More(_)
        More(v) ==
            IF v = <<>> THEN << <<"]">> >>
            ELSE << <<",", " ">> \o IntText(Head(v)) >> \o More(Tail(v))
        List(v) ==
            IF v = <<>> THEN << <<"[", "]">> >>
            ELSE << <<"[">> \o IntText(Head(v)) >> \o More(Tail(v))
        Item(k) ==
            << <<"\"">> \o KeyText(k) \o <<"\"">>, <<":", " ">> >> \o List(d[k])
        RECURSIVE Items(_)
        Items(ks) ==
            IF ks = <<>> THEN <<>>
            ELSE << <<",", " ">> >> \o Item(Head(ks)) \o Items(Tail(ks))
    IN  IF order = <<>> THEN << <<"{", "}">> >>
        ELSE << <<"{">> >> \o Item(Head(order)) \o Items(Tail(order))
             \o << <<"}">> >>

\* "".join(chunks)
RECURSIVE Concat(_)
Concat(chunks) ==
    IF chunks = <<>> THEN <<>> ELSE Head(chunks) \o Concat(Tail(chunks))

\* json.dumps(d): the text json.dump writes
json_dumps(d, order) == Concat(json_chunks(d, order))

\* json.loads(s): one JSON value between optional whitespace, or an error.
\* The reader answers [ok, val, next]: whether it read a value, the value
\* with its Python type (a dict with the order of its keys), and the index
\* behind it.  Fractions, exponents and \uXXXX escapes are not modelled:
\* vectors hold ints and keys letters
json_loads(s) ==
    LET digits == {"0", "1", "2", "3", "4", "5", "6", "7", "8", "9"}
        Fail == [ok |-> FALSE, val |-> JNull, next |-> 0]
        Done(v, i) == [ok |-> TRUE, val |-> v, next |-> i]
        \* the index of the first character from i on that is not whitespace
        RECURSIVE SkipWs(_)
        SkipWs(i) ==
            IF i <= Len(s) /\ s[i] \in {" ", "\t", "\n", "\r"}
            THEN SkipWs(i + 1)
            ELSE i
        \* a string from behind its opening quote up to the closing quote; a
        \* control character (NUL among them) is an error, as is an unknown
        \* escape
        unescape == [c \in {"\"", "\\", "/", "n", "t", "r", "f"} |->
                       CASE c = "n" -> "\n" [] c = "t" -> "\t"
                         [] c = "r" -> "\r" [] c = "f" -> "\f"
                         [] OTHER -> c]
        control == {"U+0000", "\t", "\n", "\r", "\f", "U+000B", "U+001C",
                    "U+001D", "U+001E", "U+001F"}
        RECURSIVE StringAt(_, _)
        StringAt(i, acc) ==
            IF i > Len(s) THEN Fail
            ELSE IF s[i] = "\"" THEN Done(JStr(acc), i + 1)
            ELSE IF s[i] = "\\"
            THEN IF i < Len(s) /\ s[i + 1] \in DOMAIN unescape
                 THEN StringAt(i + 2, Append(acc, unescape[s[i + 1]]))
                 ELSE Fail
            ELSE IF s[i] \in control THEN Fail
            ELSE StringAt(i + 1, Append(acc, s[i]))
        \* an int from index i on: `0`, or a digit other than 0 and the
        \* digits behind it
        value(c) ==
            CASE c = "0" -> 0 [] c = "1" -> 1 [] c = "2" -> 2 [] c = "3" -> 3
              [] c = "4" -> 4 [] c = "5" -> 5 [] c = "6" -> 6 [] c = "7" -> 7
              [] c = "8" -> 8 [] c = "9" -> 9
        isdigit(j) == j <= Len(s) /\ s[j] \in digits
        RECURSIVE Scan(_, _)
        Scan(j, n) ==
            IF isdigit(j) THEN Scan(j + 1, 10 * n + value(s[j]))
            ELSE Done([type |-> "int", val |-> n], j)
        IntAt(i) ==
            IF ~isdigit(i) THEN Fail
            ELSE IF s[i] = "0" THEN Done([type |-> "int", val |-> 0], i + 1)
            ELSE Scan(i, 0)
        word(i, w) ==
            i + Len(w) - 1 <= Len(s) /\ SubSeq(s, i, i + Len(w) - 1) = w
        RECURSIVE ValueAt(_), MembersAt(_, _, _), ElementsAt(_, _)
        \* the JSON value that starts at index i
        ValueAt(i) ==
            IF i > Len(s) THEN Fail
            ELSE IF s[i] = "{"
            THEN LET j == SkipWs(i + 1)
                 IN  IF j <= Len(s) /\ s[j] = "}"
                     THEN Done([type |-> "dict", val |-> EmptyDict,
                                keys |-> <<>>], j + 1)
                     ELSE MembersAt(j, EmptyDict, <<>>)
            ELSE IF s[i] = "["
            THEN LET j == SkipWs(i + 1)
                 IN  IF j <= Len(s) /\ s[j] = "]"
                     THEN Done(JList(<<>>), j + 1)
                     ELSE ElementsAt(j, <<>>)
            ELSE IF s[i] = "\"" THEN StringAt(i + 1, <<>>)
            ELSE IF s[i] = "-"
            THEN LET n == IntAt(i + 1)
                 IN  IF n.ok
                     THEN Done([type |-> "int", val |-> 0 - n.val.val], n.next)
                     ELSE Fail
            ELSE IF s[i] \in digits THEN IntAt(i)
            ELSE IF word(i, <<"n", "u", "l", "l">>) THEN Done(JNull, i + 4)
            ELSE IF word(i, <<"t", "r", "u", "e">>)
            THEN Done([type |-> "bool", val |-> TRUE], i + 4)
            ELSE IF word(i, <<"f", "a", "l", "s", "e">>)
            THEN Done([type |-> "bool", val |-> FALSE], i + 5)
            ELSE Fail
        \* the members of an object from the key at index i on; a key that
        \* comes again keeps its place and takes the later value
        MembersAt(i, d, order) ==
            IF i > Len(s) \/ s[i] # "\"" THEN Fail
            ELSE LET k == StringAt(i + 1, <<>>)
                     c == SkipWs(k.next)
                     v == ValueAt(SkipWs(c + 1))
                     e == SkipWs(v.next)
                     key == k.val.val
                     d2 == [x \in (DOMAIN d) \cup {key} |->
                              IF x = key THEN v.val ELSE d[x]]
                     order2 == IF key \in DOMAIN d THEN order
                               ELSE Append(order, key)
                 IN  IF ~k.ok THEN Fail
                     ELSE IF c > Len(s) \/ s[c] # ":" THEN Fail
                     ELSE IF ~v.ok \/ e > Len(s) THEN Fail
                     ELSE IF s[e] = "," THEN MembersAt(SkipWs(e + 1), d2, order2)
                     ELSE IF s[e] = "}"
                     THEN Done([type |-> "dict", val |-> d2,
                                keys |-> order2], e + 1)
                     ELSE Fail
        \* the elements of an array from the value at index i on
        ElementsAt(i, acc) ==
            LET v == ValueAt(i)
                e == SkipWs(v.next)
            IN  IF ~v.ok \/ e > Len(s) THEN Fail
                ELSE IF s[e] = "," THEN ElementsAt(SkipWs(e + 1),
                                                 Append(acc, v.val))
                ELSE IF s[e] = "]" THEN Done(JList(Append(acc, v.val)), e + 1)
                ELSE Fail
        r == ValueAt(SkipWs(1))
    IN  IF r.ok /\ SkipWs(r.next) > Len(s) THEN r ELSE Fail

\* a write of chunk through a handle whose offset is pos, into a file that
\* is [exists, text]: the file grows by NUL characters ("U+0000") up to the
\* offset when it is shorter, then takes the chunk over what it holds from
\* there on
WriteAt(file, pos, chunk) ==
    LET old == file.text
        end == pos + Len(chunk)
        len == IF Len(old) > end THEN Len(old) ELSE end
    IN  [exists |-> TRUE,
         text |-> [i \in 1..len |->
                     IF pos < i /\ i <= end THEN chunk[i - pos]
                     ELSE IF i <= Len(old) THEN old[i]
                     ELSE "U+0000"]]

\* what the import finds: os.path.exists, then json.load of the text, which
\* builds the Python object of the JSON value.  view is the file as the
\* other specifications hold it.  A text the workers wrote starts with `{`
\* or NUL, so JSON of another type than dict is not followed further
ReadCacheFile(file) ==
    LET r == json_loads(file.text)
        RECURSIVE PyValue(_)
        PyValue(j) ==
            CASE j.type = "list" -> [i \in 1..Len(j.val) |-> PyValue(j.val[i])]
              [] j.type = "dict" -> [k \in DOMAIN j.val |-> PyValue(j.val[k])]
              [] j.type = "null" -> j
              [] OTHER -> j.val
    IN  IF ~file.exists
        THEN [kind |-> "absent", cache |-> EmptyDict, order |-> <<>>,
              view |-> AbsentFile]
        ELSE IF r.ok /\ r.val.type = "dict"
        THEN [kind |-> "json", cache |-> PyValue(r.val), order |-> r.val.keys,
              view |-> JsonDump(PyValue(r.val))]
        ELSE [kind |-> "torn", cache |-> EmptyDict, order |-> <<>>,
              view |-> TornFile]

\* a worker after import of the module: its own dict, loaded from the file,
\* with the order of its keys.  While the worker saves, out holds the chunks
\* json.dump has still to write and pos is the offset of the worker's file
\* handle
Worker(cache, order, up) ==
    [pc |-> "idle", up |-> up, cache |-> cache, order |-> order,
     text |-> <<>>, out |-> <<>>, pos |-> 0, answered |-> {}]

\* mutant: the save merges what the file holds with the worker's dict
WorkerDump_Merged(cache, order, file) ==
    LET old == ReadCacheFile(file)
        more == SelectSeq(order, LAMBDA k : k \notin DOMAIN old.cache)
    IN  json_chunks([k \in (DOMAIN old.cache) \cup (DOMAIN cache) |->
                       IF k \in DOMAIN cache THEN cache[k] ELSE old.cache[k]],
                    old.order \o more)

\* json.dump(embedding_cache, f) of one worker: its own dict, whatever the
\* file held
WorkerDump(cache, order, file) == json_chunks(cache, order)

\* both workers freshly started with no cache file yet
InitWorkers ==
    /\ workers = [w \in Workers |-> Worker(EmptyDict, <<>>, TRUE)]
    /\ cache_text = [exists |-> FALSE, text |-> <<>>]

----------------------------------------------------------------------------
(* backend/scripts/create-embeddings.py: chunk_text *)

CHUNK_SIZE == 220
CHUNK_OVERLAP == 40

\* longest text, in words
MaxWords == 450

\* word number k of a text; every word is one atom
Word(k) == ToString(k)

\* a text of n words with one blank between two words
PlainText(n) ==
    [i \in 1..(IF n = 0 THEN 0 ELSE 2 * n - 1) |->
        IF i % 2 = 1 THEN Word((i + 1) \div 2) ELSE " "]

\* a text of n words, each after a newline and a blank, with a blank at the
\* end
RaggedText(n) ==
    [i \in 1..(3 * n + 1) |->
        IF i = 3 * n + 1 THEN " "
        ELSE IF i % 3 = 0 THEN Word(i \div 3)
        ELSE IF i % 3 = 1 THEN "\n" ELSE " "]

\* the texts handed to chunk_text
ChunkInputs ==
    { PlainText(n) : n \in 0..MaxWords } \cup { RaggedText(n) : n \in 0..MaxWords }

\* text.split(): the words, without the whitespace around them (words are
\* single atoms with whitespace in between)
Split(text) == SelectSeq(text, LAMBDA a : a \notin Whitespace)

\* " ".join(words)
Join(words) ==
    [i \in 1..(IF words = <<>> THEN 0 ELSE 2 * Len(words) - 1) |->
        IF i % 2 = 1 THEN words[(i + 1) \div 2] ELSE " "]

\* words[i:j] (0-based, j may exceed the length)
Slice(words, i, j) ==
    SubSeq(words, i + 1, IF j < Len(words) THEN j ELSE Len(words))

\* mutant: the window moves on by a whole chunk, no overlap
NextStart_NoOverlap(i) == i + CHUNK_SIZE

\* `i += CHUNK_SIZE - CHUNK_OVERLAP`
NextStart(i) == i + CHUNK_SIZE - CHUNK_OVERLAP

\* no call of chunk_text is running
NoChunker == [pc |-> "idle", text |-> <<>>, words |-> <<>>, i |-> 0,
              chunks |-> <<>>]

----------------------------------------------------------------------------
(* The state machine *)

NoRequest == [question |-> <<>>, selected_text |-> NoneStr]
NoIo == [embed |-> NoCall, save |-> "none", search |-> NoCall, chat |-> NoCall]
NoResponse ==
    [status |-> 0, detail |-> <<>>, answer |-> <<>>, sources |-> <<>>,
     calls |-> <<>>, contexts |-> NoContexts, chunks |-> <<>>,
     embedding |-> <<>>, inserted |-> FALSE]

\* the part of a handler's result that is the response and its trace
Response(r) ==
    [status |-> r.status, detail |-> r.detail, answer |-> r.answer,
     sources |-> r.sources, calls |-> r.calls, contexts |-> r.contexts,
     chunks |-> r.chunks, embedding |-> r.embedding, inserted |-> r.inserted]

\* no /chat request handled yet
NoChat ==
    [op |-> "none", caller |-> "none", query |-> <<>>, software |-> NoneStr,
     hardware |-> NoneStr, status |-> 0, detail |-> <<>>, answer |-> <<>>,
     sources |-> <<>>, conversation_history |-> <<>>, calls |-> <<>>,
     prompt |-> NoPrompt, timestamp |-> 0]

\* main2.py after import: an empty deque
InitChat ==
    /\ conversation_history = <<>>
    /\ initialized = NotInitialized
    /\ chat_trace = NoChat

\* app.py, main.py and embeddings.py after import with no cache file yet
InitQuery ==
    /\ running = TRUE
    /\ embedding_cache = EmptyDict
    /\ cache_file = AbsentFile
    /\ req = NoRequest
    /\ io = NoIo
    /\ resp = NoResponse
    /\ last_save = "none"
    /\ computed = {}
    /\ rate_limit_answers = {}

\* every program freshly started
InitIdle == InitQuery /\ InitChat /\ InitRetry /\ InitWorkers

\* no chunk_text call
InitChunker == chunker = NoChunker

Init ==
    /\ variant \in {"app", "main"}
    /\ InitIdle
    /\ InitChunker

\* the chat provider answered "too many requests": TooManyRequestsError of
\* the Cohere client, HTTP 429 of the Gemini endpoint
ChatRateLimited(co) ==
    co.kind = "rate_limit" \/ (co.kind = "response" /\ co.status = 429)

\* the chat call failed otherwise: another exception, another non-200 status,
\* or a 200 answer whose body is not JSON (resp.json() raises)
ChatGenericFailure(co) ==
    co.kind \in {"error", "exception", "not_json"}
    \/ (co.kind = "response" /\ co.status \notin {200, 429})

\* the state a handler result r leaves for request (q, sel) under answers
\* (eo, so, sr, co)
Handled(q, sel, eo, so, sr, co, r) ==
    /\ req' = [question |-> q, selected_text |-> sel]
    /\ io' = [embed |-> eo, save |-> so, search |-> sr, chat |-> co]
    /\ resp' = Response(r)
    /\ embedding_cache' = r.cache
    /\ cache_file' = r.file
    /\ last_save' = IF r.save = "none" THEN last_save ELSE r.save
    /\ computed' = IF r.inserted THEN computed \cup {Strip(q)} ELSE computed
    /\ rate_limit_answers' = IF ChatRateLimited(co) /\ r.status = 200
                             THEN rate_limit_answers \cup {r.answer}
                             ELSE rate_limit_answers
    /\ UNCHANGED <<variant, running>>
    /\ UNCHANGED outside_query

\* POST /query of app.py.  Each provider answers only when it is called.
QueryChatbot ==
    /\ variant = "app"
    /\ running
    /\ resp = NoResponse
    /\ \E q \in Questions, sel \in SelectedTexts :
        LET rejected == AppQuestionRejected(q)
            miss == ~rejected /\ Strip(q) \notin DOMAIN embedding_cache
        IN
        \E eo \in (IF miss THEN CohereEmbedOutcomes ELSE {NoCall}) :
        \E so \in (IF miss /\ eo.kind = "ok" /\ Len(eo.embeddings) > 0
                   THEN SaveOutcomes ELSE {"none"}) :
        LET embedding == IF rejected THEN <<>>
                         ELSE get_embedding(embedding_cache, cache_file,
                                            Strip(q), eo, so).ret
        IN
        \E sr \in (IF embedding # <<>> THEN SearchOutcomes ELSE {NoCall}) :
        LET found == sr.kind = "ok" /\ sr.results # <<>>
        IN
        \E co \in (IF ~rejected /\ (found \/ SelectedTextGiven(sel))
                   THEN CohereChatOutcomes ELSE {NoCall}) :
            Handled(q, sel, eo, so, sr, co,
                    query_chatbot(embedding_cache, cache_file,
                                  [question |-> q, selected_text |-> sel],
                                  eo, so, sr, co))

\* the vector index rejects a query vector of the wrong dimension
IndexAnswers(emb) ==
    IF emb = <<>> THEN {[kind |-> "error", results |-> <<>>]}
    ELSE SearchOutcomes

\* POST /query of main.py.  Each provider answers only when it is called.
QueryRoute ==
    /\ variant = "main"
    /\ running
    /\ resp = NoResponse
    /\ \E q \in Questions, sel \in SelectedTexts :
        LET rejected == MainQuestionRejected(q)
            hit == Strip(q) \in DOMAIN embedding_cache
            miss == ~rejected /\ ~hit
        IN
        \E eo \in (IF miss THEN GeminiEmbedOutcomes ELSE {NoCall}) :
        LET embeddings == gemini_embed_texts(eo)
            usable == /\ ~embeddings.raised /\ embeddings.ret.some
                      /\ embeddings.ret.val # <<>>
                      /\ embeddings.ret.val[1].some
            embedded == ~rejected /\ (hit \/ (miss /\ usable))
            emb == IF hit THEN embedding_cache[Strip(q)]
                   ELSE embeddings.ret.val[1].val
        IN
        \E so \in (IF miss /\ usable THEN SaveOutcomes ELSE {"none"}) :
        \E sr \in (IF embedded THEN IndexAnswers(emb) ELSE {NoCall}) :
        \E co \in (IF embedded /\ search_qdrant_by_embedding(sr) # <<>>
                   THEN GeminiChatOutcomes ELSE {NoCall}) :
            Handled(q, sel, eo, so, sr, co,
                    query_route(embedding_cache, cache_file,
                                [question |-> q, selected_text |-> sel],
                                eo, so, sr, co))

\* module import at start-up: app.py lets a json.load error abort the
\* process, main.py starts with an empty cache instead
LoadCache(v, file) ==
    IF file.kind = "json" THEN [up |-> TRUE, cache |-> file.data]
    ELSE IF file.kind = "absent" THEN [up |-> TRUE, cache |-> EmptyDict]
    ELSE [up |-> v = "main", cache |-> EmptyDict]

\* the process is stopped and started again
Restart ==
    /\ LET l == LoadCache(variant, cache_file) IN
        /\ running' = l.up
        /\ embedding_cache' = l.cache
    /\ req' = NoRequest
    /\ io' = NoIo
    /\ resp' = NoResponse
    /\ last_save' = "none"
    /\ UNCHANGED <<variant, cache_file, computed, rate_limit_answers>>
    /\ UNCHANGED outside_query

\* the response has been sent; the handler's request is over
Respond ==
    /\ resp # NoResponse
    /\ req' = NoRequest
    /\ io' = NoIo
    /\ resp' = NoResponse
    /\ UNCHANGED <<variant, running, embedding_cache, cache_file, last_save,
                   computed, rate_limit_answers>>
    /\ UNCHANGED outside_query

Next == QueryChatbot \/ QueryRoute \/ Respond \/ Restart

\* either backend
Spec == Init /\ [][Next]_vars

\* the Cohere backend, backend/app.py
InitApp == Init /\ variant = "app"
NextApp == QueryChatbot \/ Respond \/ Restart
SpecApp == InitApp /\ [][NextApp]_vars

\* the handled /chat, GET /history or DELETE /history request and its response
ChatTrace(op, caller, request, r, timestamp) ==
    [op |-> op, caller |-> caller, query |-> request.query,
     software |-> request.software, hardware |-> request.hardware,
     status |-> r.status, detail |-> r.detail, answer |-> r.answer,
     sources |-> r.sources, conversation_history |-> r.conversation_history,
     calls |-> r.calls, prompt |-> r.prompt, timestamp |-> timestamp]

\* the startup handler of main2.py runs, as it does whenever the application's
\* lifespan is entered
StartupEvent ==
    /\ variant = "main2"
    /\ \E outcome \in StartupOutcomes :
        LET r == startup_event(initialized, outcome)
        IN  /\ initialized' = r.models
            /\ chat_trace' = [NoChat EXCEPT !.op = "startup",
                                            !.status = IF r.raised THEN 500 ELSE 0]
    /\ UNCHANGED conversation_history
    /\ UNCHANGED outside_chat

\* POST /chat of main2.py, by any caller; datetime.now() is read once, when
\* the answer is there (timestamp 0: not read).  Each provider answers only
\* when it is called.
ChatEndpoint ==
    /\ variant = "main2"
    /\ \E caller \in Callers, request \in ChatRequests :
        /\ \E eo \in (IF ModelsMissing(initialized)
                      THEN {NoCall} ELSE EmbedQueryOutcomes) :
           \E po \in (IF eo.kind = "ok" THEN PineconeOutcomes ELSE {NoCall}) :
           \E lo \in (IF eo.kind = "ok" /\ po.kind = "ok"
                      THEN LlmOutcomes ELSE {NoCall}) :
           \E t \in (IF lo.kind = "ok" THEN 1..MaxNow ELSE {0}) :
            LET r == chat_endpoint(initialized, conversation_history, t,
                                   request, eo, po, lo)
            IN  /\ conversation_history' = r.history
                /\ chat_trace' = ChatTrace("chat", caller, request, r, t)
    /\ UNCHANGED initialized
    /\ UNCHANGED outside_chat

NoChatRequest == [query |-> <<>>, software |-> NoneStr, hardware |-> NoneStr]

\* GET /history of main2.py, by any caller
GetHistory ==
    /\ variant = "main2"
    /\ \E caller \in Callers :
        LET r == get_history(conversation_history)
        IN  chat_trace' = ChatTrace("get_history", caller, NoChatRequest,
                              [status |-> r.status, detail |-> <<>>,
                               answer |-> <<>>, sources |-> <<>>,
                               conversation_history |-> r.conversation_history,
                               calls |-> <<>>, prompt |-> NoPrompt], 0)
    /\ UNCHANGED <<conversation_history, initialized>>
    /\ UNCHANGED outside_chat

\* DELETE /history of main2.py, by any caller
ClearHistory ==
    /\ variant = "main2"
    /\ \E caller \in Callers :
        LET r == clear_history(conversation_history)
        IN  /\ conversation_history' = r.history
            /\ chat_trace' = ChatTrace("clear_history", caller, NoChatRequest,
                                 [status |-> r.status, detail |-> <<>>,
                                  answer |-> <<>>, sources |-> <<>>,
                                  conversation_history |-> <<>>,
                                  calls |-> <<>>, prompt |-> NoPrompt], 0)
    /\ UNCHANGED initialized
    /\ UNCHANGED outside_chat

\* the main2.py process is stopped and its module imported again: a new,
\* empty deque and the three globals None
RestartChat ==
    /\ variant = "main2"
    /\ conversation_history' = <<>>
    /\ initialized' = NotInitialized
    /\ chat_trace' = NoChat
    /\ UNCHANGED outside_chat

\* the LangChain backend, backend/main2.py
InitChatSpec == variant = "main2" /\ InitIdle /\ InitChunker
NextChat ==
    StartupEvent \/ ChatEndpoint \/ GetHistory \/ ClearHistory \/ RestartChat
SpecChat == InitChatSpec /\ [][NextChat]_vars

\* what the latest answer of the endpoint was, for the trace
AnswerKind(http) ==
    IF RetryAttempt(http).store THEN "vector"
    ELSE IF http.kind = "response" /\ http.status = 429 THEN "rate_limit"
    ELSE "failure"

\* get_gemini_embedding(text) is called: a cached text returns at once, any
\* other enters the `while True` loop
RetryCall ==
    /\ variant = "embeddings"
    /\ retry.pc \in {"idle", "returned"}
    /\ \E text \in Texts :
        retry' = IF text \in DOMAIN embedding_cache
                 THEN [NoRetry EXCEPT !.pc = "returned", !.text = text,
                                      !.ret = embedding_cache[text]]
                 ELSE [NoRetry EXCEPT !.pc = "post", !.text = text]
    /\ UNCHANGED <<embedding_cache, cache_file, provider>>
    /\ UNCHANGED outside_retry

\* requests.post and the handling of its answer up to the insertion into the
\* cache: a usable vector goes into the cache, anything else sleeps
RetryPost ==
    /\ variant = "embeddings"
    /\ retry.pc = "post"
    /\ \E http \in ProviderAnswers(provider) :
        LET a == RetryAttempt(http)
            n == IF retry.attempts < MaxAttempts THEN retry.attempts + 1
                 ELSE retry.attempts
        IN  /\ retry' = [retry EXCEPT !.pc = IF a.store THEN "save" ELSE "sleep",
                                      !.vector = a.vector, !.sleep = a.sleep,
                                      !.attempts = n,
                                      !.answer = AnswerKind(http),
                                      !.save = "none"]
            /\ embedding_cache' = IF a.store
                                  THEN DictSet(embedding_cache, retry.text, a.vector)
                                  ELSE embedding_cache
    /\ UNCHANGED <<cache_file, provider>>
    /\ UNCHANGED outside_retry

\* save_cache() inside the try block: an error of open or json.dump is caught
\* by `except Exception` and sleeps 10 s
RetrySave ==
    /\ variant = "embeddings"
    /\ retry.pc = "save"
    /\ \E so \in DiskAnswers(provider) :
        /\ cache_file' = FileAfterSave(embedding_cache, cache_file, so)
        /\ retry' = [retry EXCEPT !.pc = IF so = "ok" THEN "return" ELSE "sleep",
                                  !.sleep = IF so = "ok" THEN 0 ELSE 10,
                                  !.save = so]
    /\ UNCHANGED <<embedding_cache, provider>>
    /\ UNCHANGED outside_retry

\* `return vector`
RetryReturn ==
    /\ variant = "embeddings"
    /\ retry.pc = "return"
    /\ retry' = [retry EXCEPT !.pc = "returned", !.ret = retry.vector]
    /\ UNCHANGED <<embedding_cache, cache_file, provider>>
    /\ UNCHANGED outside_retry

\* time.sleep(...) is over: the loop starts its next pass
RetrySleep ==
    /\ variant = "embeddings"
    /\ retry.pc = "sleep"
    /\ retry' = [retry EXCEPT !.pc = "post", !.sleep = 0]
    /\ UNCHANGED <<embedding_cache, cache_file, provider>>
    /\ UNCHANGED outside_retry

\* the environment settles: from now on the endpoint always rate-limits, or
\* the endpoint and the disk always work
ProviderSettles ==
    /\ variant = "embeddings"
    /\ provider = "flaky"
    /\ provider' \in {"rate_limited", "healthy"}
    /\ UNCHANGED <<embedding_cache, cache_file, retry>>
    /\ UNCHANGED outside_retry

\* get_embedding(text) in worker w up to the insertion: the text is not in
\* the worker's dict, the provider hands back its vector (<<1>> for "a",
\* <<2>> for another text), the worker stores it
WorkerInsert(w) ==
    /\ workers[w].up
    /\ workers[w].pc = "idle"
    /\ \E text \in Texts :
        /\ text \notin DOMAIN workers[w].cache
        /\ workers' = [workers EXCEPT
                         ![w].pc = "open",
                         ![w].text = text,
                         ![w].cache = DictSet(workers[w].cache, text,
                                              IF text = <<"a">> THEN <<1>>
                                              ELSE <<2>>),
                         ![w].order = Append(workers[w].order, text)]
    /\ UNCHANGED <<cache_file, cache_text>>
    /\ UNCHANGED outside_workers

\* open(embedding_cache_file, "w") in worker w: the file is truncated; the
\* handles of the other workers keep their offsets
WorkerOpen(w) ==
    /\ workers[w].up
    /\ workers[w].pc = "open"
    /\ cache_text' = [exists |-> TRUE, text |-> <<>>]
    /\ cache_file' = ReadCacheFile(cache_text').view
    /\ workers' = [workers EXCEPT
                     ![w].pc = "dump",
                     ![w].out = WorkerDump(workers[w].cache, workers[w].order,
                                           cache_text),
                     ![w].pos = 0]
    /\ UNCHANGED outside_workers

\* json.dump in worker w: the buffer of the file object runs full with a
\* chunk and what it holds is written at the offset of the handle.  With
\* which chunk that happens depends on the sizes of the vectors: here with
\* any chunk but the last
WorkerFlush(w) ==
    /\ workers[w].up
    /\ workers[w].pc = "dump"
    /\ \E n \in 1..(Len(workers[w].out) - 1) :
        LET part == Concat(SubSeq(workers[w].out, 1, n))
        IN  /\ cache_text' = WriteAt(cache_text, workers[w].pos, part)
            /\ workers' = [workers EXCEPT
                             ![w].out = SubSeq(@, n + 1, Len(@)),
                             ![w].pos = @ + Len(part)]
    /\ cache_file' = ReadCacheFile(cache_text').view
    /\ UNCHANGED outside_workers

\* the end of the `with` block in worker w: close() writes the rest of the
\* text at the offset of the handle.  The handler then answers its request.
WorkerDumpClose(w) ==
    /\ workers[w].up
    /\ workers[w].pc = "dump"
    /\ cache_text' = WriteAt(cache_text, workers[w].pos,
                             Concat(workers[w].out))
    /\ cache_file' = ReadCacheFile(cache_text').view
    /\ workers' = [workers EXCEPT
                     ![w].pc = "idle", ![w].text = <<>>, ![w].out = <<>>,
                     ![w].pos = 0,
                     ![w].answered = @ \cup {workers[w].text}]
    /\ UNCHANGED outside_workers

\* worker w is started again between two requests and loads the cache file:
\* app.py lets a json.load error abort the process, main.py starts with an
\* empty cache instead
WorkerRestart(w) ==
    /\ workers[w].pc = "idle"
    /\ LET l == LoadCache(variant, cache_file)
           r == ReadCacheFile(cache_text)
       IN  workers' = [workers EXCEPT
                         ![w] = [Worker(l.cache, r.order, l.up) EXCEPT
                                   !.answered = workers[w].answered]]
    /\ UNCHANGED <<cache_file, cache_text>>
    /\ UNCHANGED outside_workers

\* two worker processes of app.py or of main.py
NextWorkers ==
    \E w \in Workers :
        WorkerInsert(w) \/ WorkerOpen(w) \/ WorkerFlush(w)
        \/ WorkerDumpClose(w) \/ WorkerRestart(w)
SpecWorkers == Init /\ [][NextWorkers]_vars

\* chunk_text(text): `words = text.split()`, `chunks = []`, `i = 0`
ChunkSplit ==
    /\ chunker.pc = "split"
    /\ chunker' = [chunker EXCEPT !.pc = "loop", !.words = Split(chunker.text),
                                  !.i = 0, !.chunks = <<>>]
    /\ UNCHANGED outside_chunker

\* one pass of `while i < len(words)`
ChunkStep ==
    /\ chunker.pc = "loop"
    /\ chunker.i < Len(chunker.words)
    /\ LET chunk == Slice(chunker.words, chunker.i, chunker.i + CHUNK_SIZE)
       IN  chunker' = [chunker EXCEPT !.chunks = Append(@, Join(chunk)),
                                      !.i = NextStart(chunker.i)]
    /\ UNCHANGED outside_chunker

\* the loop condition fails: `return chunks`
ChunkReturn ==
    /\ chunker.pc = "loop"
    /\ ~(chunker.i < Len(chunker.words))
    /\ chunker' = [chunker EXCEPT !.pc = "returned"]
    /\ UNCHANGED outside_chunker

\* chunk_text of scripts/create-embeddings.py on any text
InitChunkSpec ==
    /\ variant = "create-embeddings"
    /\ InitIdle
    /\ \E text \in ChunkInputs :
         chunker = [NoChunker EXCEPT !.pc = "split", !.text = text]
NextChunk == ChunkSplit \/ ChunkStep \/ ChunkReturn
SpecChunk == InitChunkSpec /\ [][NextChunk]_vars

\* the call keeps running until it returns
SpecChunkFair == SpecChunk /\ WF_vars(NextChunk)

\* the batch script, backend/embeddings.py
InitRetrySpec == variant = "embeddings" /\ InitIdle /\ InitChunker
NextRetry ==
    RetryCall \/ RetryPost \/ RetrySave \/ RetryReturn \/ RetrySleep
    \/ ProviderSettles
SpecRetry == InitRetrySpec /\ [][NextRetry]_vars

\* the script keeps running: a started pass of the loop is finished, a sleep
\* ends, a return is taken
SpecRetryFair ==
    /\ SpecRetry
    /\ WF_vars(RetryPost) /\ WF_vars(RetrySave) /\ WF_vars(RetryReturn)
    /\ WF_vars(RetrySleep)

----------------------------------------------------------------------------
(* Properties *)

\* a request has just been handled
Answered == resp.status # 0

\* the embedding provider failed: an exception of the client or of the HTTP
\* request, or a non-200 status
EmbedProviderFailed(eo) ==
    eo.kind \in {"rate_limit", "error", "exception"}
    \/ (eo.kind = "response" /\ eo.status # 200)

\* C1: a request whose question is empty or whitespace-only is answered
\* HTTP 400 "Question cannot be empty", no provider is called for it, and it
\* leaves the embedding cache and its file as they were.
C1_EmptyQuestionRejected ==
    [][ (resp'.status # 0 /\ Strip(req'.question) = <<>>)
        => /\ resp'.status = 400
           /\ resp'.detail = <<"Question cannot be empty">>
           /\ resp'.calls = <<>>
           /\ embedding_cache' = embedding_cache
           /\ cache_file' = cache_file ]_vars

\* C1 witness: a whitespace-only question was rejected while the cache held
\* an entry
C1_Witness ==
    /\ req.question = <<"\n", "\t">>
    /\ resp.status = 400
    /\ resp.calls = <<>>
    /\ embedding_cache # EmptyDict

\* C2: when the text of a request is already in the cache, the request gets
\* exactly the cached vector, does not call the embedding provider, and
\* leaves the entry as it is.
C2_CacheHit ==
    [][ \A t \in DOMAIN embedding_cache :
          (resp'.status = 200 /\ Strip(req'.question) = t)
          => /\ "embed" \notin Range(resp'.calls)
             /\ resp'.embedding = embedding_cache[t]
             /\ t \in DOMAIN embedding_cache'
             /\ embedding_cache'[t] = embedding_cache[t] ]_vars

\* C2 witness: a text whose embedding the provider computed earlier is asked
\* again (here with surrounding blanks) and served from the cache
C2_Witness ==
    /\ req.question = <<"\t", "a", "\n">>
    /\ resp.status = 200
    /\ <<"a">> \in computed
    /\ <<"a">> \in DOMAIN embedding_cache
    /\ resp.embedding = embedding_cache[<<"a">>]
    /\ resp.embedding # <<>>
    /\ resp.calls = <<"search", "chat">>

\* C3: whenever context passages are handed to answer generation and the
\* request carries a selected_text that is non-empty after trimming, passage 1
\* is the trimmed selected_text and the retrieved chunk texts follow in order.
C3_SelectedTextFirst ==
    (Answered /\ resp.contexts.given
     /\ req.selected_text.some /\ Strip(req.selected_text.val) # <<>>)
    => /\ Len(resp.contexts.passages) = Len(resp.chunks) + 1
       /\ resp.contexts.passages[1] =
              [n |-> 1, text |-> Strip(req.selected_text.val)]
       /\ \A i \in 1..Len(resp.chunks) :
              resp.contexts.passages[i + 1] =
                  [n |-> i + 1, text |-> resp.chunks[i].text]

\* C3 witness: the search found nothing and the chat model was called with
\* the selected text as its only passage
C3_Witness ==
    /\ req.selected_text = Some(<<"\n", "s", " ">>)
    /\ "search" \in Range(resp.calls)
    /\ resp.chunks = <<>>
    /\ "chat" \in Range(resp.calls)
    /\ resp.contexts.passages = << [n |-> 1, text |-> <<"s">>] >>

\* C4 as claimed: when the vector search yields no chunk, the sources are
\* empty, the answer is the fixed message and the chat model is not called,
\* with or without selected_text.
C4_Original ==
    (resp.status = 200 /\ "search" \in Range(resp.calls) /\ resp.chunks = <<>>)
    => /\ resp.sources = <<>>
       /\ resp.answer = MSG_NO_INFO
       /\ "chat" \notin Range(resp.calls)

\* C4 as amended: when the vector search yields no chunk the sources are
\* empty; without a non-empty selected_text the answer is the fixed message
\* and the chat model is not called; with one, query_chatbot calls the chat
\* model with the selected text as the only passage.
C4_NoChunks ==
    (resp.status = 200 /\ "search" \in Range(resp.calls) /\ resp.chunks = <<>>)
    => /\ resp.sources = <<>>
       /\ IF req.selected_text.some /\ Strip(req.selected_text.val) # <<>>
          THEN /\ "chat" \in Range(resp.calls)
               /\ resp.contexts.passages =
                      << [n |-> 1, text |-> Strip(req.selected_text.val)] >>
          ELSE /\ "chat" \notin Range(resp.calls)
               /\ io.chat = NoCall
               /\ resp.answer = MSG_NO_INFO

\* C4 witness: the index answered with an empty list, no selected_text
C4_Witness ==
    /\ io.search = [kind |-> "ok", results |-> <<>>]
    /\ req.selected_text = NoneStr
    /\ resp.status = 200
    /\ resp.answer = MSG_NO_INFO
    /\ resp.calls = <<"embed", "search">>

\* C5 as claimed: when the embedding provider fails on a cache miss, the
\* response is HTTP 200 with the fixed message and no sources, and neither
\* the vector search nor the chat model is called.
C5_Original ==
    (Answered /\ EmbedProviderFailed(io.embed))
    => /\ resp.status = 200
       /\ resp.answer = MSG_NO_INFO
       /\ resp.sources = <<>>
       /\ "search" \notin Range(resp.calls)
       /\ "chat" \notin Range(resp.calls)

\* C5 as amended: when the embedding provider fails on a cache miss, the
\* response is HTTP 200 with no sources and the vector search is not called;
\* without a non-empty selected_text the answer is the fixed message and the
\* chat model is not called; with one, query_chatbot calls the chat model
\* with the selected text as the only passage.
C5_EmbedFailed ==
    (Answered /\ EmbedProviderFailed(io.embed))
    => /\ resp.status = 200
       /\ resp.sources = <<>>
       /\ resp.embedding = <<>>
       /\ "search" \notin Range(resp.calls)
       /\ io.search = NoCall
       /\ IF req.selected_text.some /\ Strip(req.selected_text.val) # <<>>
          THEN /\ resp.calls = <<"embed", "chat">>
               /\ resp.contexts.passages =
                      << [n |-> 1, text |-> Strip(req.selected_text.val)] >>
          ELSE /\ resp.calls = <<"embed">>
               /\ resp.answer = MSG_NO_INFO

\* C5 witness: the provider was rate-limited on a miss, no selected_text
C5_Witness ==
    /\ io.embed.kind = "rate_limit"
    /\ req.selected_text = NoneStr
    /\ resp.status = 200
    /\ resp.answer = MSG_NO_INFO
    /\ resp.sources = <<>>
    /\ resp.calls = <<"embed">>

\* C6: a response never lists more than 5 sources.
C6_AtMostFiveSources == Len(resp.sources) <= 5

\* C6 witness: the index handed back more than 5 points
C6_Witness ==
    /\ resp.status = 200
    /\ Len(resp.chunks) > 5
    /\ Len(resp.sources) = 5

\* C7: the sources of a response are the first up to 5 points of the index's
\* answer, in its order, each as chapter, "Chunk <chunk_index>" and url "";
\* selected_text adds no source.
C7_SourcesFromChunks ==
    resp.status = 200
    => LET results == IF io.search.kind = "ok" THEN io.search.results ELSE <<>>
           n == IF Len(results) < 5 THEN Len(results) ELSE 5
       IN  /\ Len(resp.chunks) = Len(results)
           /\ Len(resp.sources) = n
           /\ \A i \in 1..n :
                /\ resp.chunks[i].score = results[i].score
                /\ resp.sources[i] =
                     [chapter |-> resp.chunks[i].chapter,
                      section |-> <<"Chunk ",
                                    ToString(resp.chunks[i].chunk_index)>>,
                      url |-> <<>>]

\* C7 witness: two points and a selected_text: three passages, two sources
C7_Witness ==
    /\ io.search = [kind |-> "ok", results |-> <<Hit2, Hit1>>]
    /\ req.selected_text = Some(<<"\n", "s", " ">>)
    /\ Len(resp.contexts.passages) = 3
    /\ resp.answer = <<"A">>
    /\ resp.sources =
         << [chapter |-> <<"Unknown">>, section |-> <<"Chunk ", "0">>,
             url |-> <<>>],
            [chapter |-> <<"Intro">>, section |-> <<"Chunk ", "3">>,
             url |-> <<>>] >>

\* C8: a request of app.py with a non-empty question is answered HTTP 200
\* whatever the providers do, and when the answer is not the chat model's own
\* text it is one of the fixed, non-empty messages.
C8_AlwaysHttp200 ==
    (Answered /\ Strip(req.question) # <<>>)
    => /\ resp.status = 200
       /\ io.chat.kind # "ok"
          => /\ resp.answer \in {MSG_NO_INFO, MSG_CHAT_RATE_LIMIT, MSG_CHAT_ERROR}
             /\ resp.answer # <<>>

\* C8 witness: embedding rate-limited, then the chat call failed as well
C8_Witness ==
    /\ io.embed.kind = "rate_limit"
    /\ io.chat.kind = "error"
    /\ resp.status = 200
    /\ resp.answer = MSG_CHAT_ERROR

\* C9: a rate-limited chat call and an otherwise failed chat call each get a
\* fixed answer, the two answers differ from each other, and neither failure
\* is raised to the HTTP layer: the response is HTTP 200.
C9_ChatFailuresAnswered ==
    (Answered /\ "chat" \in Range(resp.calls))
    => /\ (ChatRateLimited(io.chat) \/ ChatGenericFailure(io.chat))
          => resp.status = 200
       /\ Cardinality(rate_limit_answers) <= 1
       /\ ChatGenericFailure(io.chat) => resp.answer \notin rate_limit_answers

\* C10: once an insertion is over the file holds exactly the in-memory
\* cache, and after any sequence of requests the file has an entry for every
\* text whose embedding was ever computed, so a reload restores them all.
C10_ReloadHoldsEveryEntry ==
    /\ resp.inserted => cache_file = JsonDump(embedding_cache)
    /\ computed \subseteq DOMAIN FileDict(cache_file)

\* C11: a request never removes an entry of the embedding cache and never
\* changes the vector of a text that is already cached: across every step
\* that handles a request the cache only grows.
C11_CacheOnlyGrows ==
    [][ resp'.status # 0
        => \A t \in DOMAIN embedding_cache :
             /\ t \in DOMAIN embedding_cache'
             /\ embedding_cache'[t] = embedding_cache[t] ]_vars

\* C11 witness: a second text was inserted and the first is still cached
C11_Witness ==
    /\ resp.inserted
    /\ Strip(req.question) = <<"b">>
    /\ DOMAIN embedding_cache = {<<"a">>, <<"b">>}

\* the last n items of a sequence
LastN(s, n) == IF Len(s) <= n THEN s ELSE SubSeq(s, Len(s) - n + 1, Len(s))

\* C12: the conversation history is one bounded FIFO shared by all callers:
\* it never holds more than 7 records; a successful POST /chat leaves the
\* last 7 of the old records followed by the two new ones, so the oldest
\* records go first; GET /history hands any caller the whole history and
\* leaves it alone; DELETE /history leaves it empty.
C12_BoundedSharedFifo ==
    [][ /\ Len(conversation_history') <= 7
        /\ (chat_trace'.op = "chat" /\ chat_trace'.status = 200)
           => conversation_history' =
                LastN(conversation_history \o
                        << Message("user", chat_trace'.query,
                                   chat_trace'.timestamp),
                           Message("assistant", chat_trace'.answer,
                                   chat_trace'.timestamp) >>, 7)
        /\ chat_trace'.op = "get_history"
           => /\ chat_trace'.conversation_history = conversation_history
              /\ conversation_history' = conversation_history
        /\ chat_trace'.op = "clear_history"
           => conversation_history' = <<>> ]_vars

\* C12 witness: caller u2 got an exchange appended to a history that u1 or u2
\* had filled; the oldest records are gone, the two new ones are last
C12_Witness ==
    /\ chat_trace.op = "chat"
    /\ chat_trace.status = 200
    /\ chat_trace.caller = "u2"
    /\ chat_trace.query = <<"q2">>
    /\ Len(conversation_history) = 7
    /\ conversation_history[1].role = "assistant"
    /\ conversation_history[2].content = <<"q1">>
    /\ conversation_history[6] =
           Message("user", <<"q2">>, chat_trace.timestamp)
    /\ conversation_history[7] =
           Message("assistant", <<"r1">>, chat_trace.timestamp)

\* C13: the chunks of every search are in non-increasing order of score, best
\* match first: chunk i is point i of the index's answer, and the context
\* passages built from the chunks keep that order.
C13_BestMatchFirst ==
    Answered
    => /\ \A i \in 1..(Len(resp.chunks) - 1) :
            resp.chunks[i].score >= resp.chunks[i + 1].score
       /\ io.search.kind = "ok"
          => /\ Len(resp.chunks) = Len(io.search.results)
             /\ \A i \in 1..Len(resp.chunks) :
                  resp.chunks[i].score = io.search.results[i].score
       /\ resp.contexts.given
          => LET k == Len(resp.contexts.passages) - Len(resp.chunks)
             IN  \A i \in 1..Len(resp.chunks) :
                   resp.contexts.passages[k + i].text = resp.chunks[i].text

\* C13 witness: a search of main.py found points of different scores
C13_Witness ==
    /\ variant = "main"
    /\ resp.status = 200
    /\ Len(resp.chunks) = 4
    /\ resp.chunks[1].score = 91
    /\ resp.chunks[4].score = 80
    /\ "chat" \in Range(resp.calls)

\* the terminal outcomes of the /query state machine that a handled request
\* (rq, its provider answers i, its response r) is in
TerminalOutcomes(rq, i, r) ==
    LET generated == "chat" \in Range(r.calls)
    IN  { o \in {"EMPTY_QUESTION", "EMBED_FAILED", "NO_CONTEXT",
                 "ANSWER_FAILED", "RESPONDED"} :
            CASE o = "EMPTY_QUESTION" -> r.status = 400
              [] o = "EMBED_FAILED" ->
                    /\ r.status = 200 /\ ~generated
                    /\ r.embedding = <<>> /\ r.answer = MSG_NO_INFO
              [] o = "NO_CONTEXT" ->
                    /\ r.status = 200 /\ ~generated
                    /\ r.embedding # <<>> /\ r.chunks = <<>>
                    /\ r.answer = MSG_NO_INFO
              [] o = "ANSWER_FAILED" ->
                    /\ r.status = 200 /\ generated /\ i.chat.kind # "ok"
                    /\ r.answer \in {MSG_CHAT_RATE_LIMIT, MSG_CHAT_ERROR}
              [] OTHER ->
                    /\ r.status = 200 /\ generated /\ i.chat.kind = "ok"
                    /\ r.answer = Strip(i.chat.text) }

\* C14 as claimed: a request ends in exactly one terminal outcome, and its
\* calls are in the order embed, search, generate, with search only after an
\* embedding was obtained and generate only after the search returned at
\* least one chunk.
C14_Original ==
    Answered
    => /\ Cardinality(TerminalOutcomes(req, io, resp)) = 1
       /\ resp.calls \in {Calls(e, s, g) : e, s, g \in BOOLEAN}
       /\ "search" \in Range(resp.calls) => resp.embedding # <<>>
       /\ "chat" \in Range(resp.calls)
          => "search" \in Range(resp.calls) /\ resp.chunks # <<>>

\* C14 as amended: a request ends in exactly one terminal outcome; its calls
\* are in the order embed, search, generate; embed is called exactly on a
\* cache miss of a non-empty question, search exactly when an embedding was
\* obtained, and generate exactly when the search returned a chunk or the
\* request carries a selected_text that is non-empty after trimming (then
\* also after a failed embedding or an empty search).
C14_OutcomesAndOrder ==
    [][ resp'.status # 0
        => LET selected == /\ req'.selected_text.some
                           /\ Strip(req'.selected_text.val) # <<>>
               valid == Strip(req'.question) # <<>>
           IN  /\ Cardinality(TerminalOutcomes(req', io', resp')) = 1
               /\ resp'.calls \in {Calls(e, s, g) : e, s, g \in BOOLEAN}
               /\ "embed" \in Range(resp'.calls)
                  <=> (valid /\ Strip(req'.question) \notin DOMAIN embedding_cache)
               /\ "search" \in Range(resp'.calls)
                  <=> (valid /\ resp'.embedding # <<>>)
               /\ "chat" \in Range(resp'.calls)
                  <=> (valid /\ (resp'.chunks # <<>> \/ selected)) ]_vars

\* C14 witness: a request went through embed, search and generate and ended
\* RESPONDED
C14_Witness ==
    /\ resp.calls = <<"embed", "search", "chat">>
    /\ resp.chunks # <<>>
    /\ req.selected_text = NoneStr
    /\ TerminalOutcomes(req, io, resp) = {"RESPONDED"}

\* a call of get_gemini_embedding is inside its `while True` loop
InRetryLoop == retry.pc \in {"post", "save", "return", "sleep"}

\* the call has no usable answer of the endpoint in hand
AwaitingAnswer == retry.pc \in {"post", "sleep"}

\* what holds of every return of get_gemini_embedding: the value is a
\* non-empty vector, it is the cache entry of the text, the cache file holds
\* the cache, and a call that asked the endpoint returns only after a usable
\* answer and a successful save; a pass that fails sleeps 60 s after HTTP 429
\* and 10 s otherwise
RetrySafety ==
    /\ retry.pc = "returned"
       => /\ retry.ret # <<>>
          /\ retry.text \in DOMAIN embedding_cache
          /\ embedding_cache[retry.text] = retry.ret
          /\ cache_file = JsonDump(embedding_cache)
          /\ retry.attempts > 0 => retry.answer = "vector" /\ retry.save = "ok"
    /\ retry.pc = "sleep"
       => retry.sleep = IF retry.answer = "rate_limit" THEN 60 ELSE 10

\* C15 as claimed: get_gemini_embedding never returns a failure value, it
\* retries without bound and returns only a stored and persisted non-empty
\* vector; it never terminates against an endpoint that always rate-limits;
\* and once the endpoint has answered 200 with a non-empty embedding the call
\* terminates.
C15_Original ==
    /\ []RetrySafety
    /\ []((provider = "rate_limited" /\ AwaitingAnswer)
          => [](retry.pc # "returned"))
    /\ (retry.answer = "vector") ~> (retry.pc = "returned")

\* C15 as amended: get_gemini_embedding never returns a failure value and
\* returns only a non-empty vector that is in the cache and in the cache
\* file; a call in the loop never terminates against an endpoint that always
\* rate-limits, and keeps asking it; it terminates once a usable answer has
\* been stored and the cache file written, which it always reaches when the
\* endpoint and the disk work; a usable answer whose save fails is retried
\* like any other failure.
C15_RetryUntilStored ==
    /\ []RetrySafety
    /\ []((provider = "rate_limited" /\ AwaitingAnswer)
          => [](retry.pc # "returned"))
    /\ []((provider = "rate_limited" /\ AwaitingAnswer)
          => []<>(retry.pc = "post" /\ retry.attempts = MaxAttempts))
    /\ (retry.pc = "return") ~> (retry.pc = "returned")
    /\ (provider = "healthy" /\ InRetryLoop) ~> (retry.pc = "returned")
    /\ [][(retry.pc = "save" /\ retry'.save \notin {"ok", "none"})
          => retry'.pc = "sleep" /\ retry'.sleep = 10]_vars

\* C15 witness: a call returned a vector after MaxAttempts passes, one of
\* which obtained a vector that could not be saved
C15_Witness ==
    /\ retry.pc = "returned"
    /\ retry.attempts = MaxAttempts
    /\ retry.ret # <<>>
    /\ cache_file = JsonDump(embedding_cache)
    /\ DOMAIN embedding_cache = Texts

\* C16: nothing coordinates the workers' use of the cache file.  A worker
\* opens the file whatever the other workers are doing, which empties it
\* under their open handles; every write puts characters of the writer's own
\* dict at the offset of the writer's own handle, whatever the file holds,
\* and changes nothing else but NUL padding below that offset; so a save
\* that found the file as it had left it ends with exactly the saver's dict
\* in the file, and no entry that only another worker inserted and answered
\* is in it.
C16_NoCoordination ==
    [][ \A w \in Workers :
          LET own == json_dumps(workers[w].cache, workers[w].order)
              pos == workers[w].pos
              closes == workers[w].pc = "dump" /\ workers'[w].pc = "idle"
              writes == workers[w].pc = "dump"
                        /\ (closes \/ workers'[w].pos # pos)
              end == IF closes THEN Len(own) ELSE workers'[w].pos
              old == cache_text.text
              new == cache_text'.text
          IN  /\ (workers[w].pc = "open" /\ workers'[w].pc = "dump")
                 => /\ cache_text' = [exists |-> TRUE, text |-> <<>>]
                    /\ cache_file' = TornFile
                    /\ \A x \in Workers \ {w} : workers'[x] = workers[x]
              /\ writes
                 => /\ Len(new) >= end /\ Len(new) >= Len(old)
                    /\ \A i \in 1..Len(new) :
                         new[i] = IF pos < i /\ i <= end THEN own[i]
                                  ELSE IF i <= Len(old) THEN old[i]
                                  ELSE "U+0000"
                    /\ \A x \in Workers \ {w} : workers'[x] = workers[x]
              /\ (closes /\ old = SubSeq(own, 1, pos))
                 => /\ new = own
                    /\ cache_file' = JsonDump(workers[w].cache)
                    /\ \A x \in Workers \ {w} : \A t \in workers[x].answered :
                         t \notin DOMAIN workers[w].cache
                         => t \notin DOMAIN FileDict(cache_file') ]_vars

\* C16 witness (lost update): both workers have answered, worker 1 after
\* inserting "a" and worker 2 after inserting "b"; no save is under way and
\* the file holds the dict with "b" only, so a reload misses "a"
C16_Witness ==
    /\ \A w \in Workers : workers[w].pc = "idle" /\ workers[w].up
    /\ workers[1].answered = {<<"a">>}
    /\ workers[2].answered = {<<"b">>}
    /\ cache_text.text = json_dumps(workers[2].cache, workers[2].order)
    /\ cache_file.kind = "json"
    /\ DOMAIN FileDict(cache_file) = {<<"b">>}
    /\ LoadCache(variant, cache_file).cache # workers[1].cache

\* the chunks the claim states for a word list: chunk k (from 0) is the words
\* from index 180*k up to min(180*k + 220, n), for each k with 180*k < n,
\* joined by blanks
ClaimedChunks(words) ==
    LET n == Len(words)
    IN  [k \in 1..((n + 179) \div 180) |->
            Join(Slice(words, 180 * (k - 1), 180 * (k - 1) + 220))]

\* what the claim states of a returned chunk_text call
ChunkTextResult ==
    chunker.pc = "returned"
    => LET words == Split(chunker.text)
           chunks == chunker.chunks
           size(k) == Len(Split(chunks[k]))
       IN  /\ chunks = ClaimedChunks(words)
           /\ \A k \in 1..Len(chunks) : 1 <= size(k) /\ size(k) <= 220
           /\ UNION { Range(Split(chunks[k])) : k \in 1..Len(chunks) }
                = Range(words)
           /\ \A k \in 1..Len(chunks) :
                size(k) = 220
                => /\ k < Len(chunks)
                   /\ Cardinality(Range(Split(chunks[k]))
                                  \cap Range(Split(chunks[k + 1]))) = 40
           /\ words = <<>> => chunks = <<>>

\* C17: chunk_text terminates on every text, and its result is the chunks of
\* 220 words taken every 180 words: chunk k is words 180*k up to
\* min(180*k + 220, n); every chunk has 1 to 220 words, every word is in a
\* chunk, a full chunk shares exactly its last 40 words with the next one,
\* and a text without words gives no chunk.
C17_ChunkText ==
    /\ <>(chunker.pc = "returned")
    /\ []ChunkTextResult
    /\ [][chunker.pc = "loop" /\ chunker'.pc = "loop"
          => chunker'.i > chunker.i]_vars

\* C17 witness: a text of 450 words with ragged whitespace came back as three
\* chunks of 220, 220 and 90 words
C17_Witness ==
    /\ chunker.pc = "returned"
    /\ chunker.text = RaggedText(450)
    /\ Len(chunker.chunks) = 3
    /\ Len(Split(chunker.chunks[1])) = 220
    /\ Len(Split(chunker.chunks[2])) = 220
    /\ Len(Split(chunker.chunks[3])) = 90
    /\ chunker.chunks[3][1] = Word(361)

\* C18: a request whose embedding step reports failure (get_embedding hands
\* back an empty result) leaves the in-memory cache and the cache file as
\* they were; a failed save never turns an inserted embedding into a
\* reported failure.
C18_FailureLeavesCacheAlone ==
    [][ (resp'.status = 200 /\ Strip(req'.question) # <<>>
         /\ resp'.embedding = <<>>)
        => /\ embedding_cache' = embedding_cache
           /\ cache_file' = cache_file
           /\ ~resp'.inserted ]_vars

\* C19: every vector stored in the embedding cache is non-empty, whatever
\* the embedding provider answered, so a cache hit always yields a usable
\* query vector.
C19_CachedVectorsUsable ==
    \A t \in DOMAIN embedding_cache : embedding_cache[t] # <<>>

\* C20: POST /chat touches the conversation history only after the answer
\* has been generated.  A successful call has made all three provider calls,
\* generation was given the history as it was before the call, and the call
\* appends exactly two records: the user query, then the assistant answer,
\* both with the one timestamp read after generation.  A call in which
\* retrieval or generation raises answers HTTP 500 and leaves the history
\* as it was.
C20_HistoryAfterAnswer ==
    [][ chat_trace'.op = "chat"
        => /\ chat_trace'.status \in {200, 500}
           /\ chat_trace'.status = 500
              => /\ conversation_history' = conversation_history
                 /\ chat_trace'.calls = <<>> <=> ModelsMissing(initialized)
                 /\ chat_trace'.detail # <<>>
           /\ chat_trace'.status = 200
              => LET n == Len(conversation_history')
                 IN  /\ n >= 2
                     /\ chat_trace'.calls = <<"embed", "search", "chat">>
                     /\ chat_trace'.prompt.conversation =
                            ConversationContext(conversation_history)
                     /\ conversation_history'[n - 1] =
                            [role |-> "user", content |-> chat_trace'.query,
                             timestamp |-> chat_trace'.timestamp]
                     /\ conversation_history'[n] =
                            [role |-> "assistant",
                             content |-> chat_trace'.answer,
                             timestamp |-> chat_trace'.timestamp]
                     /\ \E k \in 0..Len(conversation_history) :
                            SubSeq(conversation_history', 1, n - 2) =
                                SubSeq(conversation_history, k + 1,
                                       Len(conversation_history)) ]_vars

\* C20 witness: generation raised on a call made with a full history, which
\* got HTTP 500; no record carries the query of the failed call
C20_Witness ==
    /\ chat_trace.op = "chat"
    /\ chat_trace.status = 500
    /\ chat_trace.calls = <<"embed", "search", "chat">>
    /\ Len(conversation_history) = 7
    /\ \A i \in 1..7 : conversation_history[i].content # chat_trace.query

\* C21: in every reachable state the conversation history consists of
\* complete exchanges: its first record, if any, has role user, and every
\* assistant record comes directly after the user record of the same
\* exchange (the one with its timestamp), also once the capacity of 7 has
\* been reached.
C21_CompleteExchanges ==
    /\ conversation_history # <<>> => conversation_history[1].role = "user"
    /\ \A i \in 1..Len(conversation_history) :
          conversation_history[i].role = "assistant"
          => /\ i > 1
             /\ conversation_history[i - 1].role = "user"
             /\ conversation_history[i - 1].timestamp =
                    conversation_history[i].timestamp

====
